---- MODULE Spec2Model ----
(***************************************************************************)
(* State-machine model of the Snap! educational MCP server:                *)
(*   - the Session Authority of mcp_server/main.py (token issue,           *)
(*     validation, the shared active_sessions.json store),                 *)
(*   - the bridge protocol server of tools/snap_communicator.py,           *)
(*   - the block generator of tools/block_generator.py.                    *)
(* Each subsystem has its own specification over the shared variables.     *)
(***************************************************************************)
EXTENDS Integers, Sequences, FiniteSets, TLC

VARIABLES
  \* ---- Session Authority (main.py) ----
  file,        \* active_sessions.json: session_id -> JSON record
  mem,         \* per process: the module global active_sessions
  started,     \* per process: has main.py been imported (load_sessions run)
  exited,      \* has the generate_token.py process finished
  now,         \* wall clock, minutes
  usf,         \* per process: the running update_session_file call
  lockFile,    \* does active_sessions.json.lock exist
  nextUuid,    \* source of fresh uuid4 values
  lastStart,   \* what the last start_snap_session returned
  issued,      \* history: the record each start_snap_session call created
  vret,        \* what the last validate_token call returned
  \* ---- Bridge (snap_communicator.py) ----
  pc,          \* per connection: position of its handle_connection task
  localSid,    \* per connection: the local variable session_id
  closeCode,   \* per connection: code of the server's websocket.close, 0 if none
  connections, \* self.connections: session_id -> connection
  frames,      \* per connection: frames the server wrote on it, in order
  pending,     \* keys of self.pending_responses
  future,      \* message_id -> state and result of its asyncio.Future
  cmd,         \* per send_command call: position, session, message_id, outcome
  nextMsgId,   \* source of fresh correlation ids
  notes,       \* history: callbacks received by the Session Authority
  stats,       \* self.stats
  msgCount,    \* steady-state messages received so far (bounds the run)
  \* ---- Block Generator (block_generator.py) ----
  cache,       \* self._generative_cache: OrderedDict, oldest first
  apiCalls,    \* self._api_call_count
  metrics,     \* self._metrics
  gret,        \* what the last generate_snap_json call returned
  eret,        \* what the last _call_generative_engine call returned
  ref,         \* history: a reference LRU driven by the same lookups and stores
  mret,        \* what the last _find_matching_pattern call returned
  kb,          \* self.patterns: the inputs dict of each block of each pattern
  pret,        \* what the last _create_from_pattern call returned
  \* ---- calls observed from outside ----
  kret,        \* what the last mark_session_* call returned, and the store before it
  tret,        \* the running or last call of an MCP tool: its arguments and result
  rx           \* per connection: messages received, being handled and handled

svars == <<file, mem, started, exited, now, usf, lockFile, nextUuid, lastStart, issued, vret>>
bvars == <<pc, localSid, closeCode, connections, frames, pending, future, cmd,
           nextMsgId, notes, stats, msgCount>>
pvars == <<kb, pret>>
tvars == <<kret, tret, rx>>
gvars == <<cache, apiCalls, metrics, gret, eret, ref, mret, pvars, tvars>>
vars == <<svars, bvars, gvars>>

\* ---------------------------------------------------------------- bounds
MaxSessions == 2      \* start_snap_session calls in one run
MaxTime == 60         \* the clock stops here
TickMinutes == 30     \* granularity of the clock
NConn == 2            \* connections accepted in one run
MaxCmds == 2          \* send_command calls in one run
MaxMsgs == 1          \* steady-state messages in one run
MaxUpdates == 2       \* update_session_file calls per process in one run
NAuth == 1            \* connections already authenticated where a run starts with some
MaxConnCmds == 1      \* send_command calls in a run of handshakes and teardowns
MaxCalls == 3         \* generate_snap_json calls in one run
MaxCacheCalls == 4    \* generate_snap_json calls in a run that watches the cache
MaxInbox == 3           \* steady-state messages received in a run that watches their order
MaxParams == 2         \* entries of intent.parameters
MaxActionLen == 4     \* characters of an action handed to _find_matching_pattern
CacheMaxSize == 2     \* self._cache_max_size, scaled down from 100
DailyApiLimit == 3    \* self._daily_api_limit, scaled down from 1000

\* ------------------------------------------------------------- constants
Retries == 5            \* retries = 5
FirstDelay == 1         \* delay = 0.1, in tenths of a second
TokenLifetime == 30   \* timedelta(minutes=30)
CloseProtocol == 1002
CloseAuth == 1008
CloseInternal == 1011

\* process 1 is the MCP server (tools, bridge and its callbacks); process 2 is a
\* run of generate_token.py: import main, one start_snap_session, exit
Server == 1
Cli == 2
Procs == {Server, Cli}
SessionIds == 1..MaxSessions
NoSession == 0
NoConn == 0
NoCode == [code |-> 0, upper |-> TRUE]

\* ======================================================================
\* Session Authority
\* ======================================================================

\* datetime objects and their isoformat() strings are different values
Dt(t) == [dt |-> t]
Iso(t) == [iso |-> t]
IsDt(x) == "dt" \in DOMAIN x
IsIso(x) == "iso" \in DOMAIN x
Missing == [missing |-> TRUE]
FromIsoFormat(x) == Dt(x.iso)
IsoFormat(x) == Iso(x.dt)

\* token_id.split("-")[-1][:8].upper(): the code a human types
DisplayOf(token) == [code |-> token, upper |-> TRUE]
Upper(c) == [c EXCEPT !.upper = TRUE]

\* load_sessions: created_at / expires_at strings become datetime objects
LoadSessions(f) ==
  [s \in DOMAIN f |->
     [f[s] EXCEPT
        !.created_at = IF IsIso(@) THEN FromIsoFormat(@) ELSE @,
        !.expires_at = IF IsIso(@) THEN FromIsoFormat(@) ELSE @]]

\* save_sessions: the whole in-memory map replaces the file
SaveSessions(m) ==
  [s \in DOMAIN m |->
     [m[s] EXCEPT
        !.created_at = IF IsDt(@) THEN IsoFormat(@) ELSE @,
        !.expires_at = IF IsDt(@) THEN IsoFormat(@) ELSE @]]

\* generate_secure_token: the record stored in active_sessions
NewSession(token, t) ==
  [token |-> token, created_at |-> Dt(t), expires_at |-> Dt(t + TokenLifetime),
   connected |-> FALSE, connected_at |-> Missing, disconnected_at |-> Missing]

\* find_session_by_display_token
FindSessionByDisplayToken(display, f) ==
  LET sessions == LoadSessions(f)
      hits == {s \in DOMAIN sessions : DisplayOf(sessions[s].token) = Upper(display)}
  IN IF hits = {} THEN NoSession ELSE CHOOSE s \in hits : \A o \in hits : s <= o

\* the expiry test of validate_token: datetime.utcnow() > expires_at_dt
IsExpired(t, expires) == t > expires

\* validate_token: (session_id, error)
ValidateToken(display, f, t) ==
  LET sid == FindSessionByDisplayToken(display, f)
  IN IF sid = NoSession
       THEN [session_id |-> NoSession, error |-> "not_found"]
       ELSE LET data == LoadSessions(f)[sid]
                exp == IF IsIso(data.expires_at) THEN FromIsoFormat(data.expires_at)
                                                 ELSE data.expires_at
            IN IF IsExpired(t, exp.dt)
                 THEN [session_id |-> NoSession, error |-> "expired"]
                 ELSE [session_id |-> sid, error |-> "none"]

\* datetime.now().isoformat() as written by the mark_session_* functions: the
\* stored value is never read back by the program, only its presence is kept
Stamp == [stamp |-> TRUE]

\* mark_session_connected / mark_session_disconnected: the updates dict
ConnectedUpdates == [connected |-> TRUE, field |-> "connected_at", at |-> Stamp]
DisconnectedUpdates == [connected |-> FALSE, field |-> "disconnected_at", at |-> Stamp]

\* a variant of the update that also slides the expiry on every (dis)connect
ApplyUpdatesSliding(rec, u) ==
  IF u.field = "connected_at"
    THEN [rec EXCEPT !.connected = u.connected, !.connected_at = u.at,
                     !.expires_at = Iso(now + TokenLifetime)]
    ELSE [rec EXCEPT !.connected = u.connected, !.disconnected_at = u.at,
                     !.expires_at = Iso(now + TokenLifetime)]

\* current_sessions[session_id].update(updates)
ApplyUpdates(rec, u) ==
  IF u.field = "connected_at"
    THEN [rec EXCEPT !.connected = u.connected, !.connected_at = u.at]
    ELSE [rec EXCEPT !.connected = u.connected, !.disconnected_at = u.at]

\* a variant of the update that touches every record of the file
UpdatedSessionsAll(snapshot, sid, u) ==
  IF sid \in DOMAIN snapshot
    THEN [s \in DOMAIN snapshot |-> ApplyUpdates(snapshot[s], u)]
    ELSE snapshot

\* steps 1-3 of update_session_file on the snapshot that was read
UpdatedSessions(snapshot, sid, u) ==
  IF sid \in DOMAIN snapshot
    THEN [snapshot EXCEPT ![sid] = ApplyUpdates(@, u)]
    ELSE snapshot

UsfIdle == [pc |-> "idle", sid |-> NoSession, updates |-> Missing,
            snapshot |-> <<>>, ret |-> "none", calls |-> 0,
            attempt |-> 0, delay |-> 0]
NoStart == [success |-> FALSE, session_id |-> NoSession, display_token |-> NoCode,
            expires_at |-> Iso(0)]
NoValidate == [called |-> FALSE, code |-> NoCode, session_id |-> NoSession,
               error |-> "none", at |-> 0]

SessionInit ==
  /\ file = <<>>
  /\ mem = [p \in Procs |-> <<>>]
  /\ started = [p \in Procs |-> FALSE]
  /\ exited = FALSE
  /\ now = 0
  /\ usf = [p \in Procs |-> UsfIdle]
  /\ lockFile = FALSE
  /\ nextUuid = 1
  /\ lastStart = NoStart
  /\ issued = <<>>
  /\ vret = NoValidate

\* lastStart and vret hold the value returned by the step just taken
NoReturn == lastStart' = NoStart /\ vret' = NoValidate

\* import of mcp_server.main: active_sessions = load_sessions()
Startup(p) ==
  /\ ~started[p]
  /\ started' = [started EXCEPT ![p] = TRUE]
  /\ mem' = [mem EXCEPT ![p] = LoadSessions(file)]
  /\ NoReturn
  /\ UNCHANGED <<file, exited, now, usf, lockFile, nextUuid, issued>>
  /\ UNCHANGED <<bvars, gvars>>

\* start_snap_session -> generate_secure_token -> save_sessions
StartSnapSession(p) ==
  /\ started[p]
  /\ ~(p = Cli /\ exited)
  /\ nextUuid <= MaxSessions
  /\ LET sid == nextUuid
         rec == NewSession(nextUuid, now)
         m == [s \in DOMAIN mem[p] \cup {sid} |-> IF s = sid THEN rec ELSE mem[p][s]]
     IN /\ mem' = [mem EXCEPT ![p] = IF p = Cli THEN <<>> ELSE m]
        /\ file' = SaveSessions(m)
        /\ issued' = [s \in DOMAIN issued \cup {sid} |-> IF s = sid THEN rec ELSE issued[s]]
        /\ lastStart' = [success |-> TRUE, session_id |-> sid,
                         display_token |-> DisplayOf(rec.token),
                         expires_at |-> IsoFormat(rec.expires_at)]
  /\ nextUuid' = nextUuid + 1
  /\ vret' = NoValidate
  /\ exited' = (exited \/ p = Cli)
  /\ UNCHANGED <<started, now, usf, lockFile>>
  /\ UNCHANGED <<bvars, gvars>>

\* codes a client may present: issued or not, typed in either case
Codes == {[code |-> k, upper |-> TRUE] : k \in 0..MaxSessions}
           \cup {[code |-> 1, upper |-> FALSE]}

\* validate_token(display_token)
Validate(code) ==
  /\ \E p \in Procs : started[p]
  /\ LET r == ValidateToken(code, file, now)
     IN vret' = [called |-> TRUE, code |-> code, session_id |-> r.session_id,
                 error |-> r.error, at |-> now]
  /\ lastStart' = NoStart
  /\ UNCHANGED <<file, mem, started, exited, now, usf, lockFile, nextUuid, issued>>
  /\ UNCHANGED <<bvars, gvars>>

\* update_session_file, line 91: with open(LOCK_FILE, 'w') as lock
\* (opening for writing succeeds whether or not the file exists)
UsfOpenLock(p, sid, u) ==
  /\ started[p]
  /\ usf[p].pc = "idle"
  /\ usf[p].calls < MaxUpdates
  /\ sid \in DOMAIN issued
  /\ lockFile' = TRUE
  /\ usf' = [usf EXCEPT ![p] = [pc |-> "locked", sid |-> sid, updates |-> u,
                                snapshot |-> <<>>, ret |-> "none",
                                calls |-> usf[p].calls + 1,
                                attempt |-> 1, delay |-> FirstDelay]]
  /\ NoReturn
  /\ UNCHANGED <<file, mem, started, exited, now, nextUuid, issued>>
  /\ UNCHANGED <<bvars, gvars>>

\* lines 96-99: current_sessions = json.load(f)
UsfRead(p) ==
  /\ usf[p].pc = "locked"
  /\ usf' = [usf EXCEPT ![p].pc = "read", ![p].snapshot = file]
  /\ NoReturn
  /\ UNCHANGED <<file, mem, started, exited, now, lockFile, nextUuid, issued>>
  /\ UNCHANGED <<bvars, gvars>>

\* lines 102-119: modify the session and write the whole file back
UsfWrite(p) ==
  /\ usf[p].pc = "read"
  /\ LET u == usf[p]
     IN IF u.sid \in DOMAIN u.snapshot
          THEN /\ file' = UpdatedSessions(u.snapshot, u.sid, u.updates)
               /\ usf' = [usf EXCEPT ![p].pc = "written", ![p].ret = "true",
                                     ![p].snapshot = <<>>]
          ELSE /\ file' = file
               /\ usf' = [usf EXCEPT ![p].pc = "written", ![p].ret = "false",
                                     ![p].snapshot = <<>>]
  /\ NoReturn
  /\ UNCHANGED <<mem, started, exited, now, lockFile, nextUuid, issued>>
  /\ UNCHANGED <<bvars, gvars>>

\* lines 129-135: finally, remove the lock file
UsfFinally(p) ==
  /\ usf[p].pc = "written"
  /\ lockFile' = FALSE
  /\ usf' = [usf EXCEPT ![p] = [UsfIdle EXCEPT !.calls = usf[p].calls]]
  /\ NoReturn
  /\ UNCHANGED <<file, mem, started, exited, now, nextUuid, issued>>
  /\ UNCHANGED <<bvars, gvars>>

\* ---- the retry loop of update_session_file: lines 87-139
\* a back-off that does not grow
NextDelaySame(d) == d

\* line 126: delay *= 2
NextDelay(d) == d * 2

\* update_session_file is called and open(LOCK_FILE, 'w') raises IOError on the
\* first attempt (lines 89-91, 123); the finally block of the iteration runs
UsfOpenFail(p, sid, u) ==
  /\ started[p]
  /\ usf[p].pc = "idle"
  /\ usf[p].calls < MaxUpdates
  /\ lockFile' = FALSE
  /\ usf' = [usf EXCEPT ![p] = [pc |-> "sleeping", sid |-> sid, updates |-> u,
                                snapshot |-> <<>>, ret |-> "none",
                                calls |-> usf[p].calls + 1,
                                attempt |-> 1, delay |-> FirstDelay]]
  /\ NoReturn
  /\ UNCHANGED <<file, mem, started, exited, now, nextUuid, issued>>
  /\ UNCHANGED <<bvars, gvars>>

\* lines 125-126, then the next iteration of 'for i in range(retries)' or,
\* after the last one, lines 137-139: return False
UsfSleep(p) ==
  /\ usf[p].pc = "sleeping"
  /\ usf' = [usf EXCEPT ![p].delay = NextDelay(@),
                        ![p].pc = IF usf[p].attempt < Retries THEN "retrying" ELSE "idle",
                        ![p].attempt = IF usf[p].attempt < Retries THEN @ + 1 ELSE @,
                        ![p].ret = IF usf[p].attempt < Retries THEN @ ELSE "false"]
  /\ NoReturn
  /\ UNCHANGED <<file, mem, started, exited, now, lockFile, nextUuid, issued>>
  /\ UNCHANGED <<bvars, gvars>>

\* line 91 on a later attempt: the lock file is opened
UsfReopen(p) ==
  /\ usf[p].pc = "retrying"
  /\ lockFile' = TRUE
  /\ usf' = [usf EXCEPT ![p].pc = "locked"]
  /\ NoReturn
  /\ UNCHANGED <<file, mem, started, exited, now, nextUuid, issued>>
  /\ UNCHANGED <<bvars, gvars>>

\* line 91 on a later attempt raises again; lines 123-135
UsfReopenFail(p) ==
  /\ usf[p].pc = "retrying"
  /\ lockFile' = FALSE
  /\ usf' = [usf EXCEPT ![p].pc = "sleeping"]
  /\ NoReturn
  /\ UNCHANGED <<file, mem, started, exited, now, nextUuid, issued>>
  /\ UNCHANGED <<bvars, gvars>>

\* line 98 or line 111: opening SESSIONS_FILE raises IOError inside the lock
\* (the file is left as it was); the attempt counts as failed (line 123) and
\* its finally block removes the lock
UsfFileFail(p) ==
  /\ usf[p].pc \in {"locked", "read"}
  /\ lockFile' = FALSE
  /\ usf' = [usf EXCEPT ![p].pc = "sleeping"]
  /\ NoReturn
  /\ UNCHANGED <<file, mem, started, exited, now, nextUuid, issued>>
  /\ UNCHANGED <<bvars, gvars>>

\* line 99: json.load raises on a file that is not JSON; lines 127-129 return
\* False, and the finally block follows
UsfReadError(p) ==
  /\ usf[p].pc = "locked"
  /\ usf' = [usf EXCEPT ![p].pc = "written", ![p].ret = "false"]
  /\ NoReturn
  /\ UNCHANGED <<file, mem, started, exited, now, lockFile, nextUuid, issued>>
  /\ UNCHANGED <<bvars, gvars>>

\* the steps that carry on a call that has begun
UsfStep(p) ==
  \/ UsfRead(p) \/ UsfWrite(p) \/ UsfFinally(p) \/ UsfSleep(p)
  \/ UsfReopen(p) \/ UsfReopenFail(p) \/ UsfFileFail(p) \/ UsfReadError(p)

Tick ==
  /\ now + TickMinutes <= MaxTime
  /\ now' = now + TickMinutes
  /\ NoReturn
  /\ UNCHANGED <<file, mem, started, exited, usf, lockFile, nextUuid, issued>>
  /\ UNCHANGED <<bvars, gvars>>

\* mark_session_connected / mark_session_disconnected run to completion by the
\* server: one whole update_session_file call (lines 82-139) with no other
\* writer in between
MarkSession(sid, u) ==
  /\ started[Server]
  /\ usf[Server].pc = "idle"
  /\ sid \in DOMAIN issued
  /\ file' = UpdatedSessions(file, sid, u)
  /\ NoReturn
  /\ UNCHANGED <<mem, started, exited, now, usf, lockFile, nextUuid, issued>>
  /\ UNCHANGED <<bvars, gvars>>

\* mark_session_connected(session_id) / mark_session_disconnected(session_id)
\* called with any session_id, and what the call returns
NoMark == [called |-> FALSE, sid |-> NoSession, updates |-> Missing,
           ret |-> FALSE, before |-> <<>>]
MarkSessionCall(sid, u) ==
  /\ started[Server]
  /\ usf[Server].pc = "idle"
  /\ file' = UpdatedSessions(file, sid, u)
  /\ kret' = [called |-> TRUE, sid |-> sid, updates |-> u,
              ret |-> sid \in DOMAIN file, before |-> file]
  /\ NoReturn
  /\ UNCHANGED <<mem, started, exited, now, usf, lockFile, nextUuid, issued>>
  /\ UNCHANGED <<bvars, cache, apiCalls, metrics, gret, eret, ref, mret, pvars, tret, rx>>

SessionNext ==
  \/ \E p \in Procs : Startup(p)
  \/ \E p \in Procs : StartSnapSession(p)
  \/ \E code \in Codes : Validate(code)
  \/ \E sid \in SessionIds : MarkSession(sid, ConnectedUpdates)
  \/ \E sid \in SessionIds : MarkSession(sid, DisconnectedUpdates)
  \/ Tick

\* the server marking sessions, known or not, one call after the other
MarkNext ==
  \/ \E sid \in 1..(MaxSessions + 1) : MarkSessionCall(sid, ConnectedUpdates)
  \/ \E sid \in 1..(MaxSessions + 1) : MarkSessionCall(sid, DisconnectedUpdates)

\* two server processes whose bridges call update_session_file step by step
LockNext ==
  \/ \E p \in Procs, sid \in SessionIds : UsfOpenLock(p, sid, ConnectedUpdates)
  \/ \E p \in Procs, sid \in SessionIds : UsfOpenLock(p, sid, DisconnectedUpdates)
  \/ \E p \in Procs : UsfRead(p)
  \/ \E p \in Procs : UsfWrite(p)
  \/ \E p \in Procs : UsfFinally(p)

\* the store after two start_snap_session calls of one process at time 0
TwoSessions == [s \in 1..2 |-> NewSession(s, 0)]

LockInit ==
  /\ file = SaveSessions(TwoSessions)
  /\ mem = [p \in Procs |-> TwoSessions]
  /\ started = [p \in Procs |-> TRUE]
  /\ exited = FALSE
  /\ now = 0
  /\ usf = [p \in Procs |-> UsfIdle]
  /\ lockFile = FALSE
  /\ nextUuid = 3
  /\ lastStart = NoStart
  /\ issued = TwoSessions
  /\ vret = NoValidate

\* ======================================================================
\* Bridge protocol server
\* ======================================================================

Conns == 1..NConn
Cmds == 1..MaxCmds
MsgIds == 1..MaxCmds
NoToken == [code |-> 0, upper |-> FALSE]

\* frames the server writes
AckFrame(sid) == [type |-> "connect_ack", session_id |-> sid, message_id |-> 0]
CommandFrame(sid, mid) == [type |-> "command", session_id |-> sid, message_id |-> mid]
PongFrame == [type |-> "pong", session_id |-> NoSession, message_id |-> 0]

\* messages a client sends
Msg(kind, type, token, mid) == [kind |-> kind, type |-> type, token |-> token, message_id |-> mid]
FirstMsgs ==
  {Msg("invalid_json", "none", NoToken, 0), Msg("non_object", "none", NoToken, 0),
   Msg("json", "ping", NoToken, 0), Msg("json", "connect", NoToken, 0)}
  \cup {Msg("json", "connect", c, 0) : c \in Codes \ {NoToken}}
SteadyMsgs ==
  {Msg("invalid_json", "none", NoToken, 0), Msg("json", "event", NoToken, 0),
   Msg("json", "ping", NoToken, 0)}
  \cup {Msg("json", "response", NoToken, m) : m \in 0..MaxCmds}

RxIdle == [queue |-> <<>>, busy |-> {}, done |-> <<>>]
NoResult == [type |-> "none", message_id |-> 0, conn |-> NoConn]
FutureNone == [state |-> "none", result |-> NoResult]
CmdIdle == [pc |-> "idle", sid |-> NoSession, mid |-> 0, result |-> NoResult]

\* SnapBridgeCommunicator.__init__
BridgeInit ==
  /\ pc = [c \in Conns |-> "idle"]
  /\ localSid = [c \in Conns |-> NoSession]
  /\ closeCode = [c \in Conns |-> 0]
  /\ connections = [s \in SessionIds |-> NoConn]
  /\ frames = [c \in Conns |-> <<>>]
  /\ pending = {}
  /\ future = [m \in MsgIds |-> FutureNone]
  /\ cmd = [k \in Cmds |-> CmdIdle]
  /\ nextMsgId = 1
  /\ notes = <<>>
  /\ stats = [total_connections |-> 0, total_messages |-> 0, total_commands |-> 0,
              errors |-> 0]
  /\ msgCount = 0

\* variants of the operators below, each with one of the code's checks left out
HandshakeVerdictNoExpiry(m, f, t) ==
  IF m.kind = "invalid_json"
    THEN [accept |-> FALSE, code |-> CloseProtocol, sid |-> NoSession]
  ELSE IF m.kind = "non_object"
    THEN [accept |-> FALSE, code |-> CloseInternal, sid |-> NoSession]
  ELSE IF m.type # "connect"
    THEN [accept |-> FALSE, code |-> CloseProtocol, sid |-> NoSession]
  ELSE IF m.token = NoToken
    THEN [accept |-> FALSE, code |-> CloseProtocol, sid |-> NoSession]
  ELSE LET sid == FindSessionByDisplayToken(m.token, f)
       IN IF sid = NoSession
            THEN [accept |-> FALSE, code |-> CloseAuth, sid |-> NoSession]
            ELSE [accept |-> TRUE, code |-> 0, sid |-> sid]
RegistryKept(conns, sid) == conns
MatchingPendingAny(mid, pend) == pend
PendingKept(pend, mid) == pend

\* the bridge's event loop runs one handler at a time: between storing the
\* connection (line 99) and sending connect_ack (line 110) handle_connection
\* does not await, so no other handler of that loop runs
LoopBusy == \E c \in Conns : pc[c] \in {"registered", "notified"}

\* main.py 1169-1199: in STDIO mode the tools, and so send_command, run on the
\* main thread while the bridge's loop runs on websocket_thread
ToolsShareBridgeLoop == FALSE

\* lines 63-96 of handle_connection: what the first message leads to
HandshakeVerdict(m, f, t) ==
  IF m.kind = "invalid_json"
    THEN [accept |-> FALSE, code |-> CloseProtocol, sid |-> NoSession]
  ELSE IF m.kind = "non_object"
    THEN [accept |-> FALSE, code |-> CloseInternal, sid |-> NoSession]
  ELSE IF m.type # "connect"
    THEN [accept |-> FALSE, code |-> CloseProtocol, sid |-> NoSession]
  ELSE IF m.token = NoToken
    THEN [accept |-> FALSE, code |-> CloseProtocol, sid |-> NoSession]
  ELSE LET v == ValidateToken(m.token, f, t)
       IN IF v.session_id = NoSession
            THEN [accept |-> FALSE, code |-> CloseAuth, sid |-> NoSession]
            ELSE [accept |-> TRUE, code |-> 0, sid |-> v.session_id]

\* line 157: if session_id and session_id in self.connections
CleanupGuard(sid, conns) == sid # NoSession /\ conns[sid] # NoConn

\* line 159: del self.connections[session_id]
RegistryAfterCleanup(conns, sid) == [conns EXCEPT ![sid] = NoConn]

\* line 175: if message_id in self.pending_responses -> the future to fulfil
MatchingPending(mid, pend) == IF mid \in pend THEN {mid} ELSE {}

\* lines 278-279: the purge done by send_command on timeout
PendingAfterTimeout(pend, mid) == pend \ {mid}

Note(kind, sid, c) == [kind |-> kind, sid |-> sid, conn |-> c]
Bump(field) == [stats EXCEPT ![field] = @ + 1]

\* websockets.serve calls handle_connection for a new connection
Accept(c) ==
  /\ ~LoopBusy
  /\ pc[c] = "idle"
  /\ \A o \in Conns : o < c => pc[o] # "idle"
  /\ pc' = [pc EXCEPT ![c] = "awaiting"]
  /\ UNCHANGED <<localSid, closeCode, connections, frames, pending, future, cmd,
                 nextMsgId, notes, stats, msgCount>>
  /\ UNCHANGED <<svars, gvars>>

\* lines 66-100: the first message arrives and is judged
FirstMessage(c, m) ==
  /\ ~LoopBusy
  /\ pc[c] = "awaiting"
  /\ LET v == HandshakeVerdict(m, file, now)
     IN IF v.accept
          THEN /\ localSid' = [localSid EXCEPT ![c] = v.sid]
               /\ connections' = [connections EXCEPT ![v.sid] = c]
               /\ stats' = Bump("total_connections")
               /\ pc' = [pc EXCEPT ![c] = "registered"]
               /\ UNCHANGED closeCode
          ELSE /\ closeCode' = [closeCode EXCEPT ![c] = v.code]
               /\ pc' = [pc EXCEPT ![c] = "closing"]
               /\ UNCHANGED <<localSid, connections, stats>>
  /\ UNCHANGED <<frames, pending, future, cmd, nextMsgId, notes, msgCount>>
  /\ UNCHANGED <<svars, gvars>>

\* a handshake that waits for the first message without a timeout
HandshakeWaitsOn(c) ==
  /\ pc[c] = "awaiting"
  /\ UNCHANGED vars

\* lines 143-145: no first message within 10 seconds
HandshakeTimeout(c) ==
  /\ ~LoopBusy
  /\ pc[c] = "awaiting"
  /\ closeCode' = [closeCode EXCEPT ![c] = CloseAuth]
  /\ pc' = [pc EXCEPT ![c] = "closing"]
  /\ UNCHANGED <<localSid, connections, frames, pending, future, cmd, nextMsgId,
                 notes, stats, msgCount>>
  /\ UNCHANGED <<svars, gvars>>

\* lines 103-106: session_connected_callback = mark_session_connected
NotifyConnected(c) ==
  /\ pc[c] = "registered"
  /\ notes' = Append(notes, Note("connected", localSid[c], c))
  /\ file' = UpdatedSessions(file, localSid[c], ConnectedUpdates)
  /\ pc' = [pc EXCEPT ![c] = "notified"]
  /\ UNCHANGED <<localSid, closeCode, connections, frames, pending, future, cmd,
                 nextMsgId, stats, msgCount>>
  /\ UNCHANGED <<mem, started, exited, now, usf, lockFile, nextUuid, lastStart, issued, vret>>
  /\ UNCHANGED gvars

\* lines 110-130: await websocket.send(connect_ack)
SendAck(c) ==
  /\ pc[c] = "notified"
  /\ frames' = [frames EXCEPT ![c] = Append(@, AckFrame(localSid[c]))]
  /\ pc' = [pc EXCEPT ![c] = "auth"]
  /\ UNCHANGED <<localSid, closeCode, connections, pending, future, cmd, nextMsgId,
                 notes, stats, msgCount>>
  /\ UNCHANGED <<svars, gvars>>

\* handle_message, lines 164-199, for the message m received on connection c:
\* what it does to the statistics, the pending table, the futures and the
\* frames sent
HandleMessage(c, m) ==
  IF m.kind = "invalid_json"
     THEN /\ stats' = Bump("errors")
          /\ UNCHANGED <<pending, future, frames>>
   ELSE IF m.type = "response"
     THEN LET hit == MatchingPending(m.message_id, pending)
          IN IF hit = {}
               THEN /\ stats' = Bump("total_messages")
                    /\ UNCHANGED <<pending, future, frames>>
               ELSE LET id == CHOOSE i \in hit : TRUE
                    IN IF future[id].state = "pending"
                         THEN /\ future' = [future EXCEPT ![id] =
                                   [state |-> "done",
                                    result |-> [type |-> "response",
                                                message_id |-> m.message_id,
                                                conn |-> c]]]
                              /\ pending' = pending \ {id}
                              /\ stats' = Bump("total_messages")
                              /\ UNCHANGED frames
                         ELSE \* set_result raises InvalidStateError, caught at 197
                              /\ stats' = [stats EXCEPT !.total_messages = @ + 1,
                                                        !.errors = @ + 1]
                              /\ UNCHANGED <<pending, future, frames>>
   ELSE IF m.type = "ping"
     THEN LET ws == connections[localSid[c]]
          IN IF ws = NoConn
               THEN /\ stats' = Bump("total_messages")
                    /\ UNCHANGED <<pending, future, frames>>
             ELSE IF pc[ws] = "closing"
               THEN \* send raises ConnectionClosed, caught at 197
                    /\ stats' = [stats EXCEPT !.total_messages = @ + 1,
                                              !.errors = @ + 1]
                    /\ UNCHANGED <<pending, future, frames>>
               ELSE /\ frames' = [frames EXCEPT ![ws] = Append(@, PongFrame)]
                    /\ stats' = Bump("total_messages")
                    /\ UNCHANGED <<pending, future>>
   ELSE \* event: handle_event only logs
        /\ stats' = Bump("total_messages")
        /\ UNCHANGED <<pending, future, frames>>

\* lines 132-138 taken as one step: a message is received and handled
SteadyMessage(c, m) ==
  /\ ~LoopBusy
  /\ pc[c] = "auth"
  /\ msgCount < MaxMsgs
  /\ msgCount' = msgCount + 1
  /\ HandleMessage(c, m)
  /\ UNCHANGED <<pc, localSid, closeCode, connections, cmd, nextMsgId, notes>>
  /\ UNCHANGED <<svars, gvars>>

\* ---- the message loop step by step: lines 132-138
\* the messages of the run, numbered in the order they arrive at the server
ArrivedOn(c) == Len(rx[c].queue) + Cardinality(rx[c].busy) + Len(rx[c].done)
RECURSIVE ArrivedUpTo(_)
ArrivedUpTo(c) == IF c = 0 THEN 0 ELSE ArrivedOn(c) + ArrivedUpTo(c - 1)

\* a handler that starts the next message without awaiting the previous one
TakesNextAlways(r) == TRUE

\* line 132 and 137: 'async for message in websocket' asks for the next message
\* only after 'await self.handle_message(...)' of the previous one has returned
TakesNext(r) == r.busy = {}

\* the websockets library queues a frame of connection c (max_queue = 32)
Receive(c, m) ==
  /\ pc[c] = "auth"
  /\ ArrivedUpTo(NConn) < MaxInbox
  /\ rx' = [rx EXCEPT ![c].queue = Append(@, [n |-> ArrivedUpTo(NConn) + 1, msg |-> m])]
  /\ UNCHANGED <<kret, tret, cache, apiCalls, metrics, gret, eret, ref, mret, pvars>>
  /\ UNCHANGED <<svars, bvars>>

\* lines 132-137: the loop takes the oldest queued message and calls
\* handle_message with it
HandleBegin(c) ==
  /\ ~LoopBusy
  /\ pc[c] = "auth"
  /\ rx[c].queue # <<>>
  /\ TakesNext(rx[c])
  /\ rx' = [rx EXCEPT ![c].queue = Tail(@), ![c].busy = @ \cup {Head(rx[c].queue)}]
  /\ UNCHANGED <<kret, tret, cache, apiCalls, metrics, gret, eret, ref, mret, pvars>>
  /\ UNCHANGED <<svars, bvars>>

\* handle_message returns: its pong is sent or its future fulfilled
HandleEnd(c) ==
  /\ ~LoopBusy
  /\ \E e \in rx[c].busy :
       /\ HandleMessage(c, e.msg)
       /\ rx' = [rx EXCEPT ![c].busy = @ \ {e}, ![c].done = Append(@, e)]
  /\ UNCHANGED <<pc, localSid, closeCode, connections, cmd, nextMsgId, notes, msgCount>>
  /\ UNCHANGED <<kret, tret, cache, apiCalls, metrics, gret, eret, ref, mret, pvars>>
  /\ UNCHANGED svars

\* line 135: a binary message that is not UTF-8 raises out of the loop;
\* lines 148-153 then await websocket.close(1011)
DecodeError(c) ==
  /\ ~LoopBusy
  /\ pc[c] = "auth"
  /\ closeCode' = [closeCode EXCEPT ![c] = CloseInternal]
  /\ pc' = [pc EXCEPT ![c] = "closing"]
  /\ UNCHANGED <<localSid, connections, frames, pending, future, cmd, nextMsgId,
                 notes, stats, msgCount>>
  /\ UNCHANGED <<svars, gvars>>

\* the peer closes: recv / the message loop ends or raises ConnectionClosed
PeerClose(c) ==
  /\ ~LoopBusy
  /\ pc[c] \in {"awaiting", "auth"}
  /\ pc' = [pc EXCEPT ![c] = "closing"]
  /\ UNCHANGED <<localSid, closeCode, connections, frames, pending, future, cmd,
                 nextMsgId, notes, stats, msgCount>>
  /\ UNCHANGED <<svars, gvars>>

\* the handler resumes after close / end of stream: lines 154-162
Finally(c) ==
  /\ ~LoopBusy
  /\ pc[c] = "closing"
  /\ stats' = IF closeCode[c] = CloseInternal THEN Bump("errors") ELSE stats
  /\ IF CleanupGuard(localSid[c], connections)
       THEN /\ connections' = RegistryAfterCleanup(connections, localSid[c])
            /\ notes' = Append(notes, Note("disconnected", localSid[c], c))
            /\ file' = UpdatedSessions(file, localSid[c], DisconnectedUpdates)
       ELSE UNCHANGED <<connections, notes, file>>
  /\ pc' = [pc EXCEPT ![c] = "closed"]
  /\ UNCHANGED <<localSid, closeCode, frames, pending, future, cmd, nextMsgId, msgCount>>
  /\ UNCHANGED <<mem, started, exited, now, usf, lockFile, nextUuid, lastStart, issued, vret>>
  /\ UNCHANGED gvars

\* send_command testing the registry only after the future is in the table
SendCommandLate(k, s) ==
  /\ ToolsShareBridgeLoop => ~LoopBusy
  /\ cmd[k].pc = "idle"
  /\ \A j \in Cmds : j < k => cmd[j].pc # "idle"
  /\ IF connections[s] = NoConn
       THEN /\ cmd' = [cmd EXCEPT ![k].pc = "conn_error", ![k].sid = s]
            /\ pending' = pending \cup {nextMsgId}
            /\ future' = [future EXCEPT ![nextMsgId] = [state |-> "pending",
                                                        result |-> NoResult]]
            /\ nextMsgId' = nextMsgId + 1
            /\ UNCHANGED <<frames, stats>>
       ELSE LET ws == connections[s]
                mid == nextMsgId
            IN /\ pending' = pending \cup {mid}
               /\ future' = [future EXCEPT ![mid] = [state |-> "pending",
                                                     result |-> NoResult]]
               /\ nextMsgId' = nextMsgId + 1
               /\ IF pc[ws] = "closing"
                    THEN \* websocket.send raises ConnectionClosed
                         /\ cmd' = [cmd EXCEPT ![k].pc = "send_failed",
                                               ![k].sid = s, ![k].mid = mid]
                         /\ UNCHANGED <<frames, stats>>
                    ELSE /\ frames' = [frames EXCEPT ![ws] =
                                         Append(@, CommandFrame(s, mid))]
                         /\ stats' = Bump("total_commands")
                         /\ cmd' = [cmd EXCEPT ![k].pc = "waiting",
                                               ![k].sid = s, ![k].mid = mid]
  /\ UNCHANGED <<pc, localSid, closeCode, connections, notes, msgCount>>
  /\ UNCHANGED <<svars, gvars>>

\* send_command, lines 244-270
SendCommand(k, s) ==
  /\ ToolsShareBridgeLoop => ~LoopBusy
  /\ cmd[k].pc = "idle"
  /\ \A j \in Cmds : j < k => cmd[j].pc # "idle"
  /\ IF connections[s] = NoConn
       THEN /\ cmd' = [cmd EXCEPT ![k].pc = "conn_error", ![k].sid = s]
            /\ UNCHANGED <<pending, future, nextMsgId, frames, stats>>
       ELSE LET ws == connections[s]
                mid == nextMsgId
            IN /\ pending' = pending \cup {mid}
               /\ future' = [future EXCEPT ![mid] = [state |-> "pending",
                                                     result |-> NoResult]]
               /\ nextMsgId' = nextMsgId + 1
               /\ IF pc[ws] = "closing"
                    THEN \* websocket.send raises ConnectionClosed
                         /\ cmd' = [cmd EXCEPT ![k].pc = "send_failed",
                                               ![k].sid = s, ![k].mid = mid]
                         /\ UNCHANGED <<frames, stats>>
                    ELSE /\ frames' = [frames EXCEPT ![ws] =
                                         Append(@, CommandFrame(s, mid))]
                         /\ stats' = Bump("total_commands")
                         /\ cmd' = [cmd EXCEPT ![k].pc = "waiting",
                                               ![k].sid = s, ![k].mid = mid]
  /\ UNCHANGED <<pc, localSid, closeCode, connections, notes, msgCount>>
  /\ UNCHANGED <<svars, gvars>>

\* lines 274-275: the future has a result
CommandReturn(k) ==
  /\ cmd[k].pc = "waiting"
  /\ future[cmd[k].mid].state = "done"
  /\ cmd' = [cmd EXCEPT ![k].pc = "returned", ![k].result = future[cmd[k].mid].result]
  /\ UNCHANGED <<pc, localSid, closeCode, connections, frames, pending, future,
                 nextMsgId, notes, stats, msgCount>>
  /\ UNCHANGED <<svars, gvars>>

\* asyncio.wait_for: the timeout elapses and the future is cancelled
TimeoutFire(k) ==
  /\ cmd[k].pc = "waiting"
  /\ future[cmd[k].mid].state = "pending"
  /\ future' = [future EXCEPT ![cmd[k].mid].state = "cancelled"]
  /\ cmd' = [cmd EXCEPT ![k].pc = "cancelling"]
  /\ UNCHANGED <<pc, localSid, closeCode, connections, frames, pending, nextMsgId,
                 notes, stats, msgCount>>
  /\ UNCHANGED <<svars, gvars>>

\* lines 276-280: except asyncio.TimeoutError
TimeoutRaise(k) ==
  /\ cmd[k].pc = "cancelling"
  /\ pending' = PendingAfterTimeout(pending, cmd[k].mid)
  /\ cmd' = [cmd EXCEPT ![k].pc = "timeout"]
  /\ UNCHANGED <<pc, localSid, closeCode, connections, frames, future, nextMsgId,
                 notes, stats, msgCount>>
  /\ UNCHANGED <<svars, gvars>>

\* lines 272-275 when the tool's loop is not the bridge's: handle_message sets
\* the future's result from the bridge thread, the wake-up is queued on the
\* tool's loop with call_soon and does not interrupt its select, so the caller
\* may resume only when the wait_for timer of the timeout ends the select
DeadlineWake(k) ==
  /\ ~ToolsShareBridgeLoop
  /\ cmd[k].pc = "waiting"
  /\ future[cmd[k].mid].state = "done"
  /\ cmd' = [cmd EXCEPT ![k].pc = "returned_late", ![k].result = future[cmd[k].mid].result]
  /\ UNCHANGED <<pc, localSid, closeCode, connections, frames, pending, future,
                 nextMsgId, notes, stats, msgCount>>
  /\ UNCHANGED <<svars, gvars>>

BridgeNext ==
  \/ \E c \in Conns : Accept(c)
  \/ \E c \in Conns, m \in FirstMsgs : FirstMessage(c, m)
  \/ \E c \in Conns : HandshakeTimeout(c)
  \/ \E c \in Conns : NotifyConnected(c)
  \/ \E c \in Conns : SendAck(c)
  \/ \E c \in Conns, m \in SteadyMsgs : SteadyMessage(c, m)
  \/ \E c \in Conns : DecodeError(c)
  \/ \E c \in Conns : PeerClose(c)
  \/ \E c \in Conns : Finally(c)
  \/ \E k \in Cmds, s \in 1..2 : SendCommand(k, s)
  \/ \E k \in Cmds : CommandReturn(k)
  \/ \E k \in Cmds : TimeoutFire(k)
  \/ \E k \in Cmds : TimeoutRaise(k)

\* the store as the server left it after start_snap_session at 0 and at 20
BridgeStore == [s \in 1..2 |-> NewSession(s, IF s = 1 THEN 0 ELSE 20)]
BridgeTimes == {40}

BridgeStoreInit ==
  /\ file = SaveSessions(BridgeStore)
  /\ mem = [p \in Procs |-> IF p = Server THEN BridgeStore ELSE <<>>]
  /\ started = [p \in Procs |-> p = Server]
  /\ exited = FALSE
  /\ now \in BridgeTimes
  /\ usf = [p \in Procs |-> UsfIdle]
  /\ lockFile = FALSE
  /\ nextUuid = 3
  /\ lastStart = NoStart
  /\ issued = BridgeStore
  /\ vret = NoValidate

\* ======================================================================
\* Block Generator: block_generator.py
\* ======================================================================
MaxRetries == 2

NoNextId == "none"
BlockIdNames == <<"block_000", "block_001", "block_002", "block_003", "block_004">>
BlockId(n) == BlockIdNames[n + 1]

Blk(id, opcode, category, hat, next) ==
  [block_id |-> id, opcode |-> opcode, category |-> category,
   is_hat_block |-> hat, next |-> next]
Script(id, blocks) == [script_id |-> id, blocks |-> blocks]
\* error = "" stands for a payload without a (truthy) error field
Program(scripts, error) ==
  [command |-> "create_blocks", shape |-> TRUE, scripts |-> scripts, error |-> error]

\* the knowledge base: opcode -> category, and the event-trigger opcodes
EventOpcodes == {"whenGreenFlag", "whenClicked", "whenKeyPressed"}
AllowedOpcodes == EventOpcodes \cup {"doSay", "say", "setVar", "changeYBy", "doWait"}
CategoryOf(opcode) ==
  IF opcode \in EventOpcodes \cup {"doWait"} THEN "control"
  ELSE IF opcode \in {"doSay", "say"} THEN "looks"
  ELSE IF opcode = "setVar" THEN "data"
  ELSE IF opcode = "changeYBy" THEN "motion"
  ELSE "unknown"

\* patterns_db: block templates; a template without "opcode" makes
\* _create_from_pattern raise KeyError
BlockDef(opcode, category) == [opcode |-> opcode, category |-> category]
PatternsDb ==
  [jump |-> <<BlockDef("changeYBy", "motion"), BlockDef("doWait", "control")>>,
   say |-> <<BlockDef("doSay", "looks")>>,
   broken |-> <<BlockDef("changeYBy", "motion"), BlockDef("", "motion")>>,
   turn |-> <<BlockDef("turn", "motion")>>]
\* the patterns in the order of the file, each with its trigger phrases
PatternList ==
  <<[name |-> "jump", triggers |-> <<<<"j", "u", "m", "p">>, <<"H", "o", "p">>>>],
    [name |-> "say", triggers |-> <<<<"s", "a", "y">>, <<"h", "o", "p">>, <<"p", "u", "m", "p", " ", "u", "p">>>>],
    [name |-> "broken", triggers |-> <<<<"b", "u", "m", "p">>>>],
    [name |-> "turn", triggers |-> <<<<"t", "u", "r", "n">>>>]>>
\* intent.action: an exact trigger, one in another case between blanks, the
\* trigger of the pattern that raises, one as close to "jump" as to "bump",
\* and one close to nothing
Actions ==
  {<<"j", "u", "m", "p">>, <<" ", "J", "u", "m", "p", " ">>, <<"s", "a", "y">>, <<"b", "u", "m", "p">>, <<"u", "m", "p">>, <<"d", "a", "n", "c", "e">>}
Triggers == {"", "flag", "click", "key", "later"}
\* request texts and actions are strings, modelled as sequences of
\* characters so that lower() and strip() act on them as in Python
Texts ==
  {<<"j", "u", "m", "p">>, <<" ", "J", "u", "m", "p">>,
   <<"s", "p", "i", "n">>, <<"w", "a", "l", "k">>}

\* str.lower and str.strip
ToLower == [J |-> "j", U |-> "u", M |-> "m", P |-> "p", B |-> "b", H |-> "h"]
LowerChar(ch) == IF ch \in DOMAIN ToLower THEN ToLower[ch] ELSE ch
StrLower(s) == [i \in DOMAIN s |-> LowerChar(s[i])]
RECURSIVE LStrip(_)
LStrip(s) == IF s # <<>> /\ Head(s) = " " THEN LStrip(Tail(s)) ELSE s
RECURSIVE RStrip(_)
RStrip(s) ==
  IF s # <<>> /\ s[Len(s)] = " " THEN RStrip(SubSeq(s, 1, Len(s) - 1)) ELSE s
Strip(s) == RStrip(LStrip(s))

\* _build_trigger_map: a dict in insertion order; a trigger seen again keeps
\* its place and takes the later pattern
RECURSIVE MapPut(_, _, _)
MapPut(map, trigger, name) ==
  IF map = <<>> THEN <<[trigger |-> trigger, pattern |-> name]>>
  ELSE IF Head(map).trigger = trigger
    THEN <<[trigger |-> trigger, pattern |-> name]>> \o Tail(map)
  ELSE <<Head(map)>> \o MapPut(Tail(map), trigger, name)
RECURSIVE BuildTriggerMap(_, _, _)
BuildTriggerMap(map, p, t) ==
  IF p > Len(PatternList) THEN map
  ELSE IF t > Len(PatternList[p].triggers) THEN BuildTriggerMap(map, p + 1, 1)
  ELSE BuildTriggerMap(MapPut(map, StrLower(PatternList[p].triggers[t]),
                              PatternList[p].name), p, t + 1)
TriggerAliases == BuildTriggerMap(<<>>, 1, 1)

\* difflib.SequenceMatcher(None, a, b): find_longest_match, the longest common
\* block of a[alo..ahi] and b[blo..bhi], the earliest in a and then in b
RECURSIVE RunLen(_, _, _, _, _, _)
RunLen(a, b, i, j, ahi, bhi) ==
  IF i > ahi \/ j > bhi THEN 0
  ELSE IF a[i] # b[j] THEN 0
  ELSE 1 + RunLen(a, b, i + 1, j + 1, ahi, bhi)
FindLongestMatch(a, b, alo, ahi, blo, bhi) ==
  LET pairs == (alo..ahi) \X (blo..bhi)
      size == [p \in pairs |-> RunLen(a, b, p[1], p[2], ahi, bhi)]
      top == CHOOSE n \in {size[p] : p \in pairs} : \A q \in pairs : size[q] <= n
      i0 == CHOOSE i \in alo..ahi :
              /\ \E j \in blo..bhi : size[<<i, j>>] = top
              /\ \A k \in alo..(i - 1) : \A j \in blo..bhi : size[<<k, j>>] < top
      j0 == CHOOSE j \in blo..bhi :
              /\ size[<<i0, j>>] = top
              /\ \A k \in blo..(j - 1) : size[<<i0, k>>] < top
  IN [i |-> i0, j |-> j0, size |-> top]
\* get_matching_blocks: the characters in the longest block and in the blocks
\* found to its left and to its right
RECURSIVE MatchCount(_, _, _, _, _, _)
MatchCount(a, b, alo, ahi, blo, bhi) ==
  IF alo > ahi \/ blo > bhi THEN 0
  ELSE LET m == FindLongestMatch(a, b, alo, ahi, blo, bhi)
       IN IF m.size = 0 THEN 0
          ELSE m.size
               + MatchCount(a, b, alo, m.i - 1, blo, m.j - 1)
               + MatchCount(a, b, m.i + m.size, ahi, m.j + m.size, bhi)
\* ratio(): 2.0 * matches / length as the fraction num / den, 1.0 when both
\* strings are empty
Ratio(a, b) ==
  IF Len(a) + Len(b) = 0 THEN [num |-> 1, den |-> 1]
  ELSE [num |-> 2 * MatchCount(a, b, 1, Len(a), 1, Len(b)), den |-> Len(a) + Len(b)]
Greater(x, y) == x.num * y.den > y.num * x.den
AtLeastThreshold(x) == 10 * x.num >= 6 * x.den

NoPattern == ""
NoMatch == [called |-> FALSE, action |-> <<>>, pattern |-> NoPattern]
\* what the body of a tool comes to: a returned record, an exception, or an
\* await of a bridge command for session sid. error = "" stands for a record
\* without an "error" key
NoError == ""
Ret(success, error) ==
  [kind |-> "return", success |-> success, error |-> error, exc |-> "", sid |-> NoSession]
Raise(exc) ==
  [kind |-> "raise", success |-> FALSE, error |-> NoError, exc |-> exc, sid |-> NoSession]
Await(sid) ==
  [kind |-> "await", success |-> FALSE, error |-> NoError, exc |-> "", sid |-> sid]

NoArgs == [tool |-> "none", mode |-> "execute", sid |-> NoSession,
           intents |-> FALSE, pattern |-> ""]
NoTool == [pc |-> "none", args |-> NoArgs, k |-> 0, ret |-> Ret(FALSE, NoError)]

NoCreate ==
  [called |-> FALSE, raised |-> FALSE, name |-> NoPattern, trigger |-> "",
   parameters |-> <<>>, inputs |-> <<>>, program |-> <<>>]

\* the fuzzy loop taking the last of the equal top scores
RECURSIVE FuzzyLoopLastWins(_, _, _, _)
FuzzyLoopLastWins(action_lower, i, best_match, best_score) ==
  IF i > Len(TriggerAliases) THEN best_match
  ELSE LET score == Ratio(action_lower, TriggerAliases[i].trigger)
       IN IF ~Greater(best_score, score) /\ AtLeastThreshold(score)
            THEN FuzzyLoopLastWins(action_lower, i + 1, TriggerAliases[i].pattern, score)
            ELSE FuzzyLoopLastWins(action_lower, i + 1, best_match, best_score)

\* the fuzzy fallback of _find_matching_pattern from trigger i on
RECURSIVE FuzzyLoop(_, _, _, _)
FuzzyLoop(action_lower, i, best_match, best_score) ==
  IF i > Len(TriggerAliases) THEN best_match
  ELSE LET score == Ratio(action_lower, TriggerAliases[i].trigger)
       IN IF Greater(score, best_score) /\ AtLeastThreshold(score)
            THEN FuzzyLoop(action_lower, i + 1, TriggerAliases[i].pattern, score)
            ELSE FuzzyLoop(action_lower, i + 1, best_match, best_score)

\* _find_matching_pattern, by the name of the pattern it returns
FindMatchingName(action) ==
  LET action_lower == Strip(StrLower(action))
  IN IF \E i \in DOMAIN TriggerAliases : TriggerAliases[i].trigger = action_lower
       THEN TriggerAliases[CHOOSE i \in DOMAIN TriggerAliases :
                             TriggerAliases[i].trigger = action_lower].pattern
       ELSE FuzzyLoop(action_lower, 1, NoPattern, [num |-> 0, den |-> 1])

\* _find_matching_pattern
FindMatchingPattern(action) ==
  LET name == FindMatchingName(action)
  IN IF name = NoPattern THEN <<>> ELSE PatternsDb[name]
\* the pattern of each action of a run
MatchedPattern == [a \in Actions |-> FindMatchingPattern(a)]

\* _create_trigger_block
CreateTriggerBlock(trigger) ==
  LET opcode == IF trigger = "flag" THEN "whenGreenFlag"
                ELSE IF trigger = "click" THEN "whenClicked"
                ELSE IF trigger = "key" THEN "whenKeyPressed"
                ELSE "whenGreenFlag"
  IN Blk("block_000", opcode, "control", TRUE, "block_001")

PatternRaises(pattern) == \E i \in DOMAIN pattern : pattern[i].opcode = ""

\* _create_from_pattern
CreateFromPattern(pattern, trigger) ==
  LET base == IF trigger # "" THEN 1 ELSE 0
      n == Len(pattern)
      body == [i \in 1..n |->
                 Blk(BlockId(base + i), pattern[i].opcode, pattern[i].category,
                     i = 1 /\ trigger = "",
                     IF i < n THEN BlockId(base + i + 1) ELSE NoNextId)]
  IN IF trigger # "" THEN <<CreateTriggerBlock(trigger)>> \o body ELSE body

\* str.upper
ToUpper == [d |-> "D", e |-> "E", g |-> "G", r |-> "R", s |-> "S", y |-> "Y"]
UpperChar(ch) == IF ch \in DOMAIN ToUpper THEN ToUpper[ch] ELSE ch
StrUpper(s) == [i \in DOMAIN s |-> UpperChar(s[i])]

\* a dict is the sequence of its items in insertion order
Item(key, value) == [key |-> key, value |-> value]
DictKeys(d) == {d[i].key : i \in DOMAIN d}
DictGet(d, key) == d[CHOOSE i \in DOMAIN d : d[i].key = key].value
DictSet(d, key, value) ==
  IF key \in DictKeys(d)
    THEN [i \in DOMAIN d |-> IF d[i].key = key THEN Item(key, value) ELSE d[i]]
    ELSE Append(d, Item(key, value))

\* the "inputs" of the blocks of each pattern of the file; the second block
\* of "jump" has none
DY == <<"D", "Y">>
DEGREES == <<"D", "E", "G", "R", "E", "E", "S">>
SECS == <<"S", "E", "C", "S">>
PatternInputs ==
  [jump |-> <<<<Item(DY, 50), Item(SECS, 1)>>, <<>>>>,
   say |-> <<<<Item(SECS, 2), Item(DEGREES, 0)>>>>,
   broken |-> <<<<Item(DY, 50)>>, <<>>>>,
   turn |-> <<<<Item(DEGREES, 15)>>>>]

\* the override loop of _create_from_pattern on the inputs of one block
RECURSIVE OverrideInputs(_, _, _)
OverrideInputs(inputs, parameters, i) ==
  IF i > Len(parameters) THEN inputs
  ELSE LET param_key == StrUpper(parameters[i].key)
       IN OverrideInputs(IF param_key \in DictKeys(inputs)
                           THEN DictSet(inputs, param_key, parameters[i].value)
                           ELSE inputs,
                         parameters, i + 1)

\* the block's inputs being the template's own dict, not a copy of it
BlockInputsShared(template, parameters) ==
  LET inputs == OverrideInputs(template, parameters, 1)
  IN [inputs |-> inputs, template |-> inputs]

\* inputs=block_def.get("inputs", {}).copy() and the override loop: the
\* inputs of the new block, and the template's dict after the loop
BlockInputs(template, parameters) ==
  [inputs |-> OverrideInputs(template, parameters, 1), template |-> template]

\* format_for_snap
FormatForSnap(blocks) == Program(<<Script("script_001", blocks)>>, "")

\* _create_error_fallback
CreateErrorFallback(error) ==
  Program(<<Script("error_001",
     <<Blk("error_block_000", "whenGreenFlag", "control", TRUE, "error_block_001"),
       Blk("error_block_001", "doSay", "looks", FALSE, NoNextId)>>)>>, error)

\* ---- generate_from_math_pattern ----
\* math_patterns.json: block templates by pattern name, "" for a template
\* without an opcode; the parser also knows ratio_equivalent, which this file
\* does not hold
MathPatternsDb ==
  [unit_rate |-> <<"setVar", "setVar", "doSay">>,
   simple_division |-> <<"whenGreenFlag", "doWait", "">>]
\* parsed["pattern"], "" for None
MathParsed == {"", "unit_rate", "simple_division", "ratio_equivalent"}
MathBlockIdNames == <<"math_block_001", "math_block_002", "math_block_003">>

\* _get_block_category
GetBlockCategory(opcode) ==
  IF opcode = "setVar" THEN "data"
  ELSE IF opcode \in {"say", "doSay"} THEN "looks"
  ELSE IF opcode = "whenGreenFlag" THEN "control"
  ELSE "looks"

\* the program generate_from_math_pattern returns
MathProgram(pattern) ==
  IF pattern = "" THEN CreateErrorFallback("No pattern matched")
  ELSE IF pattern \notin DOMAIN MathPatternsDb
    THEN CreateErrorFallback("Pattern not found")
  ELSE LET blocks == MathPatternsDb[pattern]
           n == Len(blocks)
           opcode(i) == IF blocks[i] = "" THEN "say" ELSE blocks[i]
       IN FormatForSnap([i \in 1..n |->
            Blk(MathBlockIdNames[i], opcode(i), GetBlockCategory(opcode(i)), i = 1,
                IF i < n THEN MathBlockIdNames[i + 1] ELSE NoNextId)])

\* ---- the Validator (validate_snap_json), gates 1-7 ----
BlockIds(sc) == {sc.blocks[i].block_id : i \in DOMAIN sc.blocks}
BlockAt(sc, id) == CHOOSE i \in DOMAIN sc.blocks : sc.blocks[i].block_id = id
RECURSIVE ReachFrom(_, _, _)
ReachFrom(sc, id, seen) ==
  IF id \notin BlockIds(sc) \/ id \in seen THEN seen
  ELSE ReachFrom(sc, sc.blocks[BlockAt(sc, id)].next, seen \cup {id})

ScriptGate(sc) ==
  IF \E i, j \in DOMAIN sc.blocks : i # j /\ sc.blocks[i].block_id = sc.blocks[j].block_id
    THEN 3
  ELSE IF ~(sc.blocks[1].is_hat_block /\ sc.blocks[1].opcode \in EventOpcodes)
          \/ \E i \in DOMAIN sc.blocks : i > 1 /\ sc.blocks[i].is_hat_block
    THEN 4
  ELSE IF \E i \in DOMAIN sc.blocks :
            \/ sc.blocks[i].opcode \notin AllowedOpcodes
            \/ sc.blocks[i].category # CategoryOf(sc.blocks[i].opcode)
    THEN 5
  ELSE IF \E i \in DOMAIN sc.blocks :
            sc.blocks[i].next # NoNextId /\ sc.blocks[i].next \notin BlockIds(sc)
    THEN 6
  ELSE IF ReachFrom(sc, sc.blocks[1].block_id, {}) # BlockIds(sc)
    THEN 7
  ELSE 0

\* the gate that rejects the program, 0 if none does
FailingGate(p) ==
  IF p.shape /\ p.error # "" THEN 0    \* error marker: validation bypassed
  ELSE IF ~p.shape THEN 1
  ELSE IF \/ \E i, j \in DOMAIN p.scripts :
               i # j /\ p.scripts[i].script_id = p.scripts[j].script_id
          \/ \E i \in DOMAIN p.scripts : p.scripts[i].blocks = <<>>
    THEN 2
  ELSE IF \E i \in DOMAIN p.scripts : ScriptGate(p.scripts[i]) # 0
    THEN LET i == CHOOSE k \in DOMAIN p.scripts :
                    /\ ScriptGate(p.scripts[k]) # 0
                    /\ \A l \in DOMAIN p.scripts : l < k => ScriptGate(p.scripts[l]) = 0
         IN ScriptGate(p.scripts[i])
  ELSE 0
ValidateSnapJson(p) == FailingGate(p) = 0

\* ---- what the generative backend can answer ----
Hat == Blk("block_001", "whenGreenFlag", "control", TRUE, "block_002")
Move(id, next) == Blk(id, "changeYBy", "motion", FALSE, next)
One(blocks) == <<Script("script_001", blocks)>>
BackendPrograms ==
  {Program(One(<<Hat, Move("block_002", NoNextId)>>), ""),
   Program(One(<<Hat, Move("block_001", NoNextId)>>), ""),
   Program(One(<<Move("block_001", NoNextId)>>), ""),
   Program(One(<<Hat, Blk("block_002", "evalJS", "other", FALSE, NoNextId)>>), ""),
   Program(One(<<Hat, Move("block_002", "block_004")>>), ""),
   Program(One(<<Blk("block_001", "whenGreenFlag", "control", TRUE, NoNextId),
                 Move("block_002", NoNextId)>>), ""),
   Program(One(<<>>), ""),
   [Program(<<>>, "") EXCEPT !.shape = FALSE],
   Program(<<>>, "backend refused")}
NoProgram == Program(<<>>, "")
BackendAnswers ==
  {[kind |-> k, program |-> NoProgram] : k \in {"raises", "no_json", "bad_json"}}
  \cup {[kind |-> "json", program |-> q] : q \in BackendPrograms}

\* hashlib.md5(...).hexdigest(), taken as free of collisions
Md5(s) == <<"md5", s>>

\* the key of the text as it was typed
CacheKeyRaw(text) == Md5(text)

\* _get_cache_key: md5 of the lowered, stripped text
CacheKey(text) == Md5(Strip(StrLower(text)))

CacheKeys(c) == {c[i].key : i \in DOMAIN c}
CacheIndex(c, key) == CHOOSE i \in DOMAIN c : c[i].key = key
Without(c, i) == SubSeq(c, 1, i - 1) \o SubSeq(c, i + 1, Len(c))
\* a hit that leaves the order as it is
MoveToEndKept(c, key) == c

\* OrderedDict.move_to_end
MoveToEnd(c, key) == Without(c, CacheIndex(c, key)) \o <<c[CacheIndex(c, key)]>>

\* _store_cache
StoreCache(c, key, result) ==
  IF key \in CacheKeys(c) THEN MoveToEnd(c, key)
  ELSE Append(IF Len(c) >= CacheMaxSize THEN Tail(c) ELSE c,
              [key |-> key, value |-> result])

\* the retry loop with no fallback: the last answer is returned as it is
RECURSIVE AttemptsNoFallback(_, _, _)
AttemptsNoFallback(outs, i, calls) ==
  IF i > MaxRetries
    THEN [program |-> outs[MaxRetries].program, calls |-> calls]
  ELSE IF outs[i].kind = "json" /\ ValidateSnapJson(outs[i].program)
    THEN [program |-> outs[i].program, calls |-> calls + 1]
  ELSE AttemptsNoFallback(outs, i + 1, calls + 1)

\* the retry loop accepting whatever parses, validated or not
RECURSIVE AttemptsNoValidate(_, _, _)
AttemptsNoValidate(outs, i, calls) ==
  IF i > MaxRetries
    THEN [program |-> CreateErrorFallback("All validation retries failed"),
          calls |-> calls]
  ELSE IF outs[i].kind = "json"
    THEN [program |-> outs[i].program, calls |-> calls + 1]
  ELSE AttemptsNoValidate(outs, i + 1, calls + 1)

\* the retry loop of _call_generative_engine from attempt i on
RECURSIVE Attempts(_, _, _)
Attempts(outs, i, calls) ==
  IF i > MaxRetries
    THEN [program |-> CreateErrorFallback("All validation retries failed"),
          calls |-> calls]
  ELSE IF outs[i].kind = "json" /\ ValidateSnapJson(outs[i].program)
    THEN [program |-> outs[i].program, calls |-> calls + 1]
  ELSE Attempts(outs, i + 1, calls + 1)

\* the quota test with > in place of >=
CallGenerativeEngineLate(outs, calls) ==
  IF calls > DailyApiLimit
    THEN [program |-> CreateErrorFallback("API limit exceeded"), calls |-> calls]
    ELSE Attempts(outs, 1, calls)

\* _call_generative_engine
CallGenerativeEngine(outs, calls) ==
  IF calls >= DailyApiLimit
    THEN [program |-> CreateErrorFallback("API limit exceeded"), calls |-> calls]
    ELSE Attempts(outs, 1, calls)

\* the backend is asked only when no pattern matches
NoAnswers == [i \in 1..MaxRetries |-> [kind |-> "raises", program |-> NoProgram]]

\* what the last call of generate_snap_json returned, with the request text
\* it was given and the backend calls it made
NoGenerate ==
  [called |-> FALSE, raised |-> FALSE, program |-> NoProgram, path |-> "none",
   text |-> <<>>, calls |-> 0]
Returned(program, path, text, calls) ==
  [called |-> TRUE, raised |-> FALSE, program |-> program, path |-> path,
   text |-> text, calls |-> calls]

\* what the last call of _call_generative_engine returned: the counter before
\* it, the backend calls it made and the answers the backend had for them
NoEngine ==
  [called |-> FALSE, program |-> NoProgram, before |-> 0, calls |-> 0,
   outs |-> NoAnswers]

\* a reference LRU cache: every key carries the time of its last use (0 when
\* absent) and its value; a put on a full cache drops the key used longest ago
Keys == {CacheKey(t) : t \in Texts}
RefEmpty ==
  [clock |-> 0, stamp |-> [k \in Keys |-> 0], value |-> [k \in Keys |-> NoProgram]]
RefHeld(r) == {k \in Keys : r.stamp[k] > 0}
RefOldest(r) == CHOOSE k \in RefHeld(r) : \A j \in RefHeld(r) : r.stamp[k] <= r.stamp[j]
RefTouch(r, k) ==
  [r EXCEPT !.clock = @ + 1, !.stamp[k] = r.clock + 1]
RefGet(r, k) == IF k \in RefHeld(r) THEN RefTouch(r, k) ELSE r
RefDrop(r, k) == [r EXCEPT !.stamp[k] = 0, !.value[k] = NoProgram]
RefPut(r, k, v) ==
  LET room == IF k \notin RefHeld(r) /\ Cardinality(RefHeld(r)) >= CacheMaxSize
                THEN RefDrop(r, RefOldest(r)) ELSE r
  IN [RefTouch(room, k) EXCEPT !.value[k] = v]
\* the reference cache after the lookup of a call and the store that follows
\* a miss answered by the program stored
RefAfterCall(r, text, stored, program) ==
  IF CacheKey(text) \in RefHeld(r) THEN RefGet(r, CacheKey(text))
  ELSE IF stored THEN RefPut(r, CacheKey(text), program)
  ELSE r

\* generate_snap_json calls made so far
Calls == metrics.cache_hits + metrics.rule_based_hits + metrics.generative_hits

\* SnapBlockGenerator.__init__
GenInit ==
  /\ cache = <<>>
  /\ apiCalls = 0
  /\ metrics = [cache_hits |-> 0, rule_based_hits |-> 0, generative_hits |-> 0,
                failures |-> 0]
  /\ gret = NoGenerate
  /\ eret = NoEngine
  /\ ref = RefEmpty
  /\ mret = NoMatch
  /\ kb = PatternInputs
  /\ pret = NoCreate
  /\ kret = NoMark
  /\ tret = NoTool
  /\ rx = [c \in 1..NConn |-> RxIdle]

\* every result stored, error programs too
CacheableAlways(program) == TRUE

\* line 163: if not generated_json.get("payload", {}).get("error")
Cacheable(program) == program.error = ""

\* generate_snap_json(intent, user_description), the backend answering outs
GenerateSnapJson(action, trigger, text, outs) ==
  /\ LET key == CacheKey(text)
         pattern == MatchedPattern[action]
     IN IF key \in CacheKeys(cache)
          THEN /\ cache' = MoveToEnd(cache, key)
               /\ metrics' = [metrics EXCEPT !.cache_hits = @ + 1]
               /\ gret' = Returned(cache[CacheIndex(cache, key)].value, "cache",
                                  text, 0)
               /\ UNCHANGED apiCalls
        ELSE IF pattern # <<>>
          THEN IF PatternRaises(pattern)
                 THEN \* KeyError, caught at line 171
                      /\ metrics' = [metrics EXCEPT !.rule_based_hits = @ + 1,
                                                    !.failures = @ + 1]
                      /\ gret' = Returned(CreateErrorFallback("'opcode'"), "rule",
                                       text, 0)
                      /\ UNCHANGED <<cache, apiCalls>>
                 ELSE LET result == FormatForSnap(CreateFromPattern(pattern, trigger))
                      IN /\ metrics' = [metrics EXCEPT !.rule_based_hits = @ + 1]
                         /\ cache' = IF Cacheable(result)
                                       THEN StoreCache(cache, key, result) ELSE cache
                         /\ gret' = Returned(result, "rule", text, 0)
                         /\ UNCHANGED apiCalls
        ELSE LET r == CallGenerativeEngine(outs, apiCalls)
             IN /\ metrics' = [metrics EXCEPT !.generative_hits = @ + 1]
                /\ apiCalls' = r.calls
                /\ cache' = IF Cacheable(r.program)
                              THEN StoreCache(cache, key, r.program) ELSE cache
                /\ gret' = Returned(r.program, "generative", text,
                                 r.calls - apiCalls)
  /\ UNCHANGED <<eret, mret, pvars, tvars, svars, bvars>>

\* generate_from_math_pattern(parsed)
GenerateFromMathPattern(pattern) ==
  /\ gret' = Returned(MathProgram(pattern), "math", <<>>, 0)
  /\ UNCHANGED <<cache, apiCalls, metrics, eret, ref, mret, pvars, tvars, svars, bvars>>

\* the backend raising, or answering with a valid program, one with a dangling
\* next, or one that carries an error marker
GenAnswers ==
  {a \in BackendAnswers :
     \/ a.kind = "raises"
     \/ a.kind = "json" /\ a.program \in
          {Program(One(<<Hat, Move("block_002", NoNextId)>>), ""),
           Program(One(<<Hat, Move("block_002", "block_004")>>), ""),
           Program(<<>>, "backend refused")}}
GenNext ==
  \/ \E pattern \in MathParsed : GenerateFromMathPattern(pattern)
  \/ \E action \in Actions, trigger \in Triggers, text \in Texts :
       \E outs \in (IF MatchedPattern[action] = <<>> /\ trigger = ""
                      THEN [1..MaxRetries -> GenAnswers] ELSE {NoAnswers}) :
          /\ Calls < MaxCalls
          /\ GenerateSnapJson(action, trigger, text, outs)
          /\ UNCHANGED ref

\* generate_snap_json seen from its cache: intents without a trigger, the
\* backend answering with a valid program at once, after one failure, or never
GoodAnswer == [kind |-> "json", program |-> Program(One(<<Hat, Move("block_002", NoNextId)>>), "")]
BadAnswer == [kind |-> "bad_json", program |-> NoProgram]
CacheOuts == {<<GoodAnswer, GoodAnswer>>, <<BadAnswer, GoodAnswer>>, <<BadAnswer, BadAnswer>>}
CacheNext ==
  \E action \in Actions, text \in Texts :
    \E outs \in (IF MatchedPattern[action] = <<>> THEN CacheOuts ELSE {NoAnswers}) :
       /\ Calls < MaxCacheCalls
       /\ GenerateSnapJson(action, "", text, outs)
       /\ ref' = RefAfterCall(ref, text,
                              gret'.path # "cache" /\ gret'.program.error = "",
                              gret'.program)

\* _find_matching_pattern(action) on its own, for every action of up to
\* MaxActionLen characters of a small alphabet
Alphabet == {"j", "u", "m", "p", "J", " "}
MatchActions == UNION {[1..n -> Alphabet] : n \in 0..MaxActionLen}
FindPattern(action) ==
  /\ ~mret.called
  /\ mret' = [called |-> TRUE, action |-> action, pattern |-> FindMatchingName(action)]
  /\ UNCHANGED <<cache, apiCalls, metrics, gret, eret, ref, pvars, tvars, svars, bvars>>
MatchNext == \E action \in MatchActions : FindPattern(action)

\* _create_from_pattern(pattern, intent) and format_for_snap on its result, on
\* their own: the pattern called name, intent.trigger and intent.parameters
ParamKeys ==
  {<<"d", "e", "g", "r", "e", "e", "s">>, DEGREES, <<"d", "y">>, <<"s">>}
ParamValues == {90, 7}
ParamItems == {Item(k, v) : k \in ParamKeys, v \in ParamValues}
Parameters ==
  {p \in UNION {[1..n -> ParamItems] : n \in 0..MaxParams} :
     \A i, j \in DOMAIN p : i # j => p[i].key # p[j].key}
CreatePattern(name, trigger, parameters) ==
  /\ ~pret.called
  /\ IF PatternRaises(PatternsDb[name])
       THEN \* KeyError at block_def["opcode"], before any block is kept
            /\ pret' = [NoCreate EXCEPT !.called = TRUE, !.raised = TRUE,
                                        !.name = name, !.trigger = trigger,
                                        !.parameters = parameters]
            /\ UNCHANGED kb
       ELSE LET made == [i \in DOMAIN kb[name] |->
                          BlockInputs(kb[name][i], parameters)]
            IN /\ kb' = [kb EXCEPT ![name] = [i \in DOMAIN made |-> made[i].template]]
               /\ pret' = [called |-> TRUE, raised |-> FALSE, name |-> name,
                           trigger |-> trigger, parameters |-> parameters,
                           inputs |-> [i \in DOMAIN made |-> made[i].inputs],
                           program |-> FormatForSnap(
                                         CreateFromPattern(PatternsDb[name], trigger))]
  /\ UNCHANGED <<cache, apiCalls, metrics, gret, eret, ref, mret, tvars, svars, bvars>>
PatternNext ==
  \E name \in DOMAIN PatternsDb, trigger \in Triggers, parameters \in Parameters :
    CreatePattern(name, trigger, parameters)

\* _call_generative_engine(user_description) on its own, the backend answering
\* outs
CallEngine(outs) ==
  /\ LET r == CallGenerativeEngine(outs, apiCalls)
     IN /\ apiCalls' = r.calls
        /\ eret' = [called |-> TRUE, program |-> r.program, before |-> apiCalls,
                    calls |-> r.calls - apiCalls, outs |-> outs]
  /\ UNCHANGED <<cache, metrics, gret, ref, mret, pvars, tvars, svars, bvars>>

EngineNext == \E outs \in [1..MaxRetries -> BackendAnswers] : CallEngine(outs)

\* connection lifecycle alone: handshakes, teardowns and the commands sent
\* meanwhile
ConnNext ==
  \/ \E c \in Conns : Accept(c)
  \/ \E c \in Conns, m \in FirstMsgs : FirstMessage(c, m)
  \/ \E c \in Conns : HandshakeTimeout(c)
  \/ \E c \in Conns : NotifyConnected(c)
  \/ \E c \in Conns : SendAck(c)
  \/ \E c \in Conns : DecodeError(c)
  \/ \E c \in Conns : PeerClose(c)
  \/ \E c \in Conns : Finally(c)
  \/ \E k \in 1..MaxConnCmds, s \in 1..2 : SendCommand(k, s)

\* commands and responses on connections that are already authenticated
CmdNext ==
  \/ \E c \in Conns, m \in SteadyMsgs : SteadyMessage(c, m)
  \/ \E c \in Conns : PeerClose(c)
  \/ \E c \in Conns : Finally(c)
  \/ \E k \in Cmds, s \in 1..2 : SendCommand(k, s)
  \/ \E k \in Cmds : CommandReturn(k)
  \/ \E k \in Cmds : TimeoutFire(k)
  \/ \E k \in Cmds : TimeoutRaise(k)

\* the state after connections 1..NAuth have authenticated, connection c with
\* the token of session SidOf(c), in the order of their numbers
Authd == 1..NAuth
SidOf(c) == ((c - 1) % 2) + 1
LastOf(s) == CHOOSE c \in Authd : SidOf(c) = s /\ \A d \in Authd : SidOf(d) = s => d <= c
AuthenticatedInit ==
  /\ pc = [c \in Conns |-> IF c \in Authd THEN "auth" ELSE "idle"]
  /\ localSid = [c \in Conns |-> IF c \in Authd THEN SidOf(c) ELSE NoSession]
  /\ closeCode = [c \in Conns |-> 0]
  /\ connections = [s \in SessionIds |->
                      IF \E c \in Authd : SidOf(c) = s THEN LastOf(s) ELSE NoConn]
  /\ frames = [c \in Conns |-> IF c \in Authd THEN <<AckFrame(SidOf(c))>> ELSE <<>>]
  /\ pending = {}
  /\ future = [m \in MsgIds |-> FutureNone]
  /\ cmd = [k \in Cmds |-> CmdIdle]
  /\ nextMsgId = 1
  /\ notes = [c \in Authd |-> Note("connected", SidOf(c), c)]
  /\ stats = [total_connections |-> NAuth, total_messages |-> 0,
              total_commands |-> 0, errors |-> 0]
  /\ msgCount = 0
  /\ file = [s \in 1..2 |->
               IF \E c \in Authd : SidOf(c) = s
                 THEN ApplyUpdates(SaveSessions(BridgeStore)[s], ConnectedUpdates)
                 ELSE SaveSessions(BridgeStore)[s]]
  /\ mem = [p \in Procs |-> IF p = Server THEN BridgeStore ELSE <<>>]
  /\ started = [p \in Procs |-> p = Server]
  /\ exited = FALSE
  /\ now = 25
  /\ usf = [p \in Procs |-> UsfIdle]
  /\ lockFile = FALSE
  /\ nextUuid = 3
  /\ lastStart = NoStart
  /\ issued = BridgeStore
  /\ vret = NoValidate

\* the server issuing sessions while renderers connect and disconnect
FlagNext ==
  \/ Startup(Server)
  \/ StartSnapSession(Server)
  \/ \E c \in Conns : Accept(c)
  \/ \E c \in Conns, m \in FirstMsgs : FirstMessage(c, m)
  \/ \E c \in Conns : NotifyConnected(c)
  \/ \E c \in Conns : SendAck(c)
  \/ \E c \in Conns : PeerClose(c)
  \/ \E c \in Conns : Finally(c)

\* commands and responses while a further renderer connects for its own session
CrossNext ==
  \/ \E c \in Conns : Accept(c)
  \/ \E c \in Conns, m \in FirstMsgs : FirstMessage(c, m)
  \/ \E c \in Conns : NotifyConnected(c)
  \/ \E c \in Conns : SendAck(c)
  \/ \E c \in Conns, m \in SteadyMsgs : SteadyMessage(c, m)
  \/ \E k \in 1..MaxConnCmds, s \in 1..2 : SendCommand(k, s)
  \/ \E k \in 1..MaxConnCmds : CommandReturn(k)

\* commands and responses in STDIO mode, the caller woken at once or late
WakeNext ==
  \/ CmdNext
  \/ \E k \in Cmds : DeadlineWake(k)

\* what the renderers send in such a run
InboxMsgs == {Msg("json", "ping", NoToken, 0), Msg("json", "response", NoToken, 1)}

\* a second renderer connects and a command is sent; then the message loops
\* of the connections run, a message taken and handled in two steps
OrderNext ==
  \/ /\ ArrivedUpTo(NConn) = 0
     /\ \/ Accept(2)
        \/ \E c \in Conns, m \in FirstMsgs : m.type = "connect" /\ FirstMessage(c, m)
        \/ \E c \in Conns : NotifyConnected(c)
        \/ \E c \in Conns : SendAck(c)
        \/ \E s \in 1..2 : SendCommand(1, s)
  \/ \E c \in Conns, m \in InboxMsgs : Receive(c, m)
  \/ \E c \in Conns : HandleBegin(c)
  \/ \E c \in Conns : HandleEnd(c)

\* connection Silent is accepted and never sends anything, nor does its peer
\* close it; the other connections come and go
Silent == CHOOSE c \in Conns : \A d \in Conns : c <= d
SilentNext ==
  \/ \E c \in Conns : Accept(c)
  \/ \E c \in Conns \ {Silent}, m \in FirstMsgs : FirstMessage(c, m)
  \/ \E c \in Conns : HandshakeTimeout(c)
  \/ \E c \in Conns : NotifyConnected(c)
  \/ \E c \in Conns : SendAck(c)
  \/ \E c \in Conns \ {Silent} : PeerClose(c)
  \/ \E c \in Conns : Finally(c)
  \/ \E k \in 1..MaxConnCmds, s \in 1..2 : SendCommand(k, s)

\* the timer of asyncio.wait_for fires and the handler's coroutine is resumed
\* whenever it can run; the steps between registration and connect_ack do not
\* wait for the peer
SilentFairness ==
  /\ WF_vars(HandshakeTimeout(Silent))
  /\ WF_vars(Finally(Silent))
  /\ \A c \in Conns : WF_vars(NotifyConnected(c)) /\ WF_vars(SendAck(c))

\* one process calling update_session_file while opening and reading the files
\* may fail at every attempt
RetryNext ==
  \/ \E sid \in SessionIds, u \in {ConnectedUpdates, DisconnectedUpdates} :
       UsfOpenLock(Server, sid, u)
  \/ \E sid \in 1..(MaxSessions + 1), u \in {ConnectedUpdates, DisconnectedUpdates} :
       UsfOpenFail(Server, sid, u)
  \/ UsfRead(Server)
  \/ UsfWrite(Server)
  \/ UsfFinally(Server)
  \/ UsfSleep(Server)
  \/ UsfReopen(Server)
  \/ UsfReopenFail(Server)
  \/ UsfFileFail(Server)
  \/ UsfReadError(Server)

\* ======================================================================
\* MCP tools: main.py
\* ======================================================================
\* a tool whose body lets the exception through
Unguarded(out) == out

\* try: ... except Exception as e: return {"success": False, "error": str(e)}
Guarded(out) == IF out.kind = "raise" THEN Ret(FALSE, out.exc) ELSE out

\* max(active_sessions.keys(), key=lambda k: active_sessions[k]["created_at"])
MostRecent(sessions) ==
  CHOOSE s \in DOMAIN sessions :
    \A o \in DOMAIN sessions : sessions[o].created_at.dt <= sessions[s].created_at.dt

\* bridge_communicator.is_connected(session_id), and the first check of
\* send_command
IsConnected(sid, conns) == sid \in DOMAIN conns /\ conns[sid] # NoConn

\* SnapBlockGenerator defines no method generate_blocks and BlockSequence has
\* no field explanation: the calls at main.py 525 and 1113 raise AttributeError
GenerateBlocksDefined == FALSE
SequenceHasExplanation == FALSE

\* check_snap_connection(session_id)
CheckSnapConnection(sidArg, f) ==
  IF sidArg \notin DOMAIN LoadSessions(f)
    THEN Ret(FALSE, "Session not found. Call start_snap_session first.")
    ELSE Ret(TRUE, NoError)

\* generate_snap_blocks up to its await of create_blocks
GenerateSnapBlocks(mode, sidArg, intents, sessions, conns) ==
  IF sidArg = NoSession /\ DOMAIN sessions = {}
    THEN Ret(FALSE, "No active session. Call start_snap_session first.")
  ELSE IF ~intents THEN Ret(FALSE, "Could not understand the request")
  ELSE IF ~GenerateBlocksDefined THEN Raise("AttributeError")
  ELSE IF ~SequenceHasExplanation /\ mode \in {"explain", "preview"}
    THEN Raise("AttributeError")
  ELSE IF mode \in {"explain", "preview"} THEN Ret(TRUE, NoError)
  ELSE LET sid == IF sidArg = NoSession THEN MostRecent(sessions) ELSE sidArg
       IN IF ~IsConnected(sid, conns)
            THEN IF SequenceHasExplanation THEN Ret(FALSE, "Browser not connected")
                 ELSE Raise("AttributeError")
            ELSE Await(sid)

\* a generate_math_blocks that goes on to the bridge in every mode
ReturnsBeforeBridgeNever(mode) == FALSE

\* lines 681-702: the explain and preview branches return
ReturnsBeforeBridge(mode) == mode \in {"explain", "preview"}

\* generate_math_blocks up to its await of create_blocks; the pattern
\* "no_blocks" is one whose entry in math_patterns.json lacks "blocks"
GenerateMathBlocks(mode, sidArg, pattern, sessions, conns) ==
  IF pattern = "" THEN Ret(FALSE, "Could not identify math pattern in the problem")
  ELSE IF pattern = "no_blocks" THEN Raise("KeyError")
  ELSE IF MathProgram(pattern).error # ""
    THEN Ret(FALSE, "Math block generation failed")
  ELSE IF ReturnsBeforeBridge(mode) THEN Ret(TRUE, NoError)
  ELSE IF sidArg = NoSession /\ DOMAIN sessions = {}
    THEN Ret(FALSE, "No active Snap! session found")
  ELSE LET sid == IF sidArg = NoSession THEN MostRecent(sessions) ELSE sidArg
       IN IF ~IsConnected(sid, conns) THEN Raise("ConnectionError") ELSE Await(sid)

\* inspect_snap_project up to its await of read_project
InspectSnapProject(sidArg, sessions, conns) ==
  IF sidArg = NoSession /\ DOMAIN sessions = {} THEN Raise("ValueError")
  ELSE LET sid == IF sidArg = NoSession THEN MostRecent(sessions) ELSE sidArg
       IN IF ~IsConnected(sid, conns) THEN Ret(FALSE, "Browser not connected")
          ELSE Await(sid)

\* create_custom_snap_block up to its await of create_custom_block
CreateCustomSnapBlock(sidArg, sessions, conns) ==
  IF ~GenerateBlocksDefined THEN Raise("AttributeError")
  ELSE IF sidArg = NoSession /\ DOMAIN sessions = {} THEN Raise("ValueError")
  ELSE LET sid == IF sidArg = NoSession THEN MostRecent(sessions) ELSE sidArg
       IN IF ~IsConnected(sid, conns) THEN Raise("ConnectionError") ELSE Await(sid)

\* the rest of a tool once send_command has ended as outcome; status is
\* payload["status"] of the response, "missing" when it has none
AfterCommand(tool, outcome, status) ==
  IF outcome = "conn_error" THEN Raise("ConnectionError")
  ELSE IF outcome = "send_failed" THEN Raise("ConnectionClosed")
  ELSE IF outcome = "timeout" THEN Raise("TimeoutError")
  ELSE IF tool \in {"generate_math_blocks", "inspect_snap_project"}
    THEN Ret(TRUE, NoError)
  ELSE IF status = "missing" THEN Raise("KeyError")
  ELSE IF tool = "generate_snap_blocks"
    THEN IF status = "success"
           THEN IF SequenceHasExplanation THEN Ret(TRUE, NoError)
                ELSE Raise("AttributeError")
           ELSE Ret(FALSE, "Unknown error")
  ELSE \* create_custom_snap_block: "success": result["status"] == "success"
       Ret(status = "success", NoError)

Modes == {"execute", "preview", "explain"}
SidArgs == {NoSession} \cup (1..3)
MathArgs == MathParsed \cup {"no_blocks"}
ToolArgs ==
  {[tool |-> "check_snap_connection", mode |-> "execute", sid |-> s,
    intents |-> FALSE, pattern |-> ""] : s \in SidArgs}
  \cup {[tool |-> "generate_snap_blocks", mode |-> m, sid |-> s,
         intents |-> i, pattern |-> ""] : m \in Modes, s \in SidArgs, i \in BOOLEAN}
  \cup {[tool |-> "generate_math_blocks", mode |-> m, sid |-> s,
         intents |-> FALSE, pattern |-> q] : m \in Modes, s \in SidArgs, q \in MathArgs}
  \cup {[tool |-> t, mode |-> "execute", sid |-> s, intents |-> TRUE, pattern |-> ""] :
          t \in {"inspect_snap_project", "create_custom_snap_block"}, s \in SidArgs}
ToolBody(a) ==
  IF a.tool = "check_snap_connection" THEN CheckSnapConnection(a.sid, file)
  ELSE IF a.tool = "generate_snap_blocks"
    THEN GenerateSnapBlocks(a.mode, a.sid, a.intents, mem[Server], connections)
  ELSE IF a.tool = "generate_math_blocks"
    THEN GenerateMathBlocks(a.mode, a.sid, a.pattern, mem[Server], connections)
  ELSE IF a.tool = "inspect_snap_project"
    THEN InspectSnapProject(a.sid, mem[Server], connections)
  ELSE CreateCustomSnapBlock(a.sid, mem[Server], connections)

\* a tool is called: it returns, or gets as far as send_command; one call of
\* a run may get that far, and takes the first send_command slot
ToolCall(a) ==
  /\ tret.pc # "await"
  /\ LET out == ToolBody(a)
     IN IF out.kind = "await"
          THEN /\ cmd[1].pc = "idle"
               /\ tret' = [pc |-> "await", args |-> a, k |-> 1, ret |-> out]
          ELSE tret' = [pc |-> "done", args |-> a, k |-> 0, ret |-> Guarded(out)]
  /\ UNCHANGED <<cache, apiCalls, metrics, gret, eret, ref, mret, pvars, kret, rx>>
  /\ UNCHANGED <<svars, bvars>>

\* the tool's send_command
ToolSend ==
  /\ tret.pc = "await"
  /\ cmd[tret.k].pc = "idle"
  /\ SendCommand(tret.k, tret.ret.sid)

\* send_command has returned or raised: the tool returns
ToolReturn(status) ==
  /\ tret.pc = "await"
  /\ cmd[tret.k].pc \in {"conn_error", "send_failed", "returned", "timeout"}
  /\ tret' = [tret EXCEPT !.pc = "done",
                          !.ret = Guarded(AfterCommand(tret.args.tool, cmd[tret.k].pc,
                                                       status))]
  /\ UNCHANGED <<cache, apiCalls, metrics, gret, eret, ref, mret, pvars, kret, rx>>
  /\ UNCHANGED <<svars, bvars>>

\* the tools called one after the other; while a tool waits for its command
\* the renderer answers it, on any connection, or not, and the connection of
\* its session may close
ToolNext ==
  \/ \E a \in ToolArgs : ToolCall(a)
  \/ ToolSend
  \/ \E status \in {"success", "error", "missing"} : ToolReturn(status)
  \/ tret.pc # "await" /\ Startup(Server)
  \/ tret.pc # "await" /\ StartSnapSession(Server)
  \/ /\ tret.pc = "await"
     /\ \/ \E c \in Conns :
             SteadyMessage(c, Msg("json", "response", NoToken, cmd[tret.k].mid))
        \/ \E c \in Conns : c = connections[tret.ret.sid] /\ PeerClose(c)
        \/ \E c \in Conns : localSid[c] = tret.ret.sid /\ Finally(c)
        \/ CommandReturn(tret.k)
        \/ TimeoutFire(tret.k)
        \/ TimeoutRaise(tret.k)

\* the whole state at start, per specification
InitOfSession == SessionInit /\ BridgeInit /\ GenInit
InitOfLock == LockInit /\ BridgeInit /\ GenInit
InitOfBridge == BridgeStoreInit /\ BridgeInit /\ GenInit
InitOfGen == SessionInit /\ BridgeInit /\ GenInit
InitOfCmd == AuthenticatedInit /\ GenInit
InitOfTool == (AuthenticatedInit \/ (SessionInit /\ BridgeInit)) /\ GenInit

SpecSession == InitOfSession /\ [][SessionNext]_vars
SpecLock == InitOfLock /\ [][LockNext]_vars
SpecBridge == InitOfBridge /\ [][BridgeNext]_vars
SpecGen == InitOfGen /\ [][GenNext]_vars
SpecConn == InitOfBridge /\ [][ConnNext]_vars
SpecCmd == InitOfCmd /\ [][CmdNext]_vars
SpecEngine == InitOfGen /\ [][EngineNext]_vars
SpecCache == InitOfGen /\ [][CacheNext]_vars
SpecMatch == InitOfGen /\ [][MatchNext]_vars
SpecPattern == InitOfGen /\ [][PatternNext]_vars
SpecMark == InitOfLock /\ [][MarkNext]_vars
SpecTool == InitOfTool /\ [][ToolNext]_vars
SpecFlag == InitOfSession /\ [][FlagNext]_vars
SpecCross == InitOfCmd /\ [][CrossNext]_vars
SpecWake == InitOfCmd /\ [][WakeNext]_vars
SpecOrder == InitOfCmd /\ [][OrderNext]_vars
SpecRetry == InitOfLock /\ [][RetryNext]_vars /\ WF_vars(UsfStep(Server))
SpecSilent == InitOfBridge /\ [][SilentNext]_vars /\ SilentFairness

\* ======================================================================
\* Claims
\* ======================================================================

\* the sessions of the file whose display code is the one presented
Matching(code) == {s \in DOMAIN file : DisplayOf(file[s].token) = Upper(code)}
ExpiresAt(s) == issued[s].expires_at.dt
IssuedAt(s) == issued[s].created_at.dt

\* C6: validate_token(display) returns (session_id, none) exactly when a stored
\* session has that display code and the time t of the call lies in
\* [issued_at, expires_at); for every t >= expires_at, t = expires_at included,
\* it returns (none, "Token has expired."); for a code of no stored session it
\* returns (none, not found).
C6_ValidWindowHalfOpen ==
  vret.called =>
    LET match == Matching(vret.code)
        live == {s \in match : IssuedAt(s) <= vret.at /\ vret.at < ExpiresAt(s)}
    IN /\ (vret.session_id # NoSession) <=> (live # {})
       /\ (vret.session_id # NoSession) => (vret.session_id \in live /\ vret.error = "none")
       /\ (match # {} /\ live = {}) => vret.error = "expired"
       /\ (match = {}) => vret.error = "not_found"

\* C7: a successful start_snap_session records the session with connected =
\* false and expires_at = issued_at + 30 minutes, and validate_token of the
\* returned display_token at any time before that expires_at returns that
\* call's session_id, never another id and never not found.
C7_StartThenValidate ==
  /\ lastStart.success =>
       LET s == lastStart.session_id
       IN /\ s \in DOMAIN file
          /\ file[s].connected = FALSE
          /\ file[s].expires_at = Iso(now + TokenLifetime)
          /\ lastStart.display_token = DisplayOf(file[s].token)
  /\ vret.called =>
       \A s \in DOMAIN issued :
         (vret.code = DisplayOf(issued[s].token) /\ vret.at < ExpiresAt(s))
           => (vret.session_id = s /\ vret.error = "none")

\* C8: a session is never resurrected after expiry: validate_token succeeds for
\* a session only at times up to the expires_at it was issued with, and no
\* operation changes the token or the expires_at of a stored session.
C8_NeverResurrected ==
  /\ \A s \in DOMAIN file :
       /\ s \in DOMAIN issued
       /\ file[s].token = issued[s].token
       /\ file[s].expires_at = IsoFormat(issued[s].expires_at)
  /\ \A p \in Procs : \A s \in DOMAIN mem[p] :
       /\ mem[p][s].token = issued[s].token
       /\ mem[p][s].expires_at = issued[s].expires_at
  /\ (vret.called /\ vret.session_id # NoSession)
       => vret.at <= ExpiresAt(vret.session_id)

\* an expired session that was connected, validated after a later session was
\* started: the answer is "expired"
C8_Witness ==
  /\ vret.called /\ vret.error = "expired"
  /\ \E s \in Matching(vret.code) : \E o \in DOMAIN file :
       /\ file[s].connected
       /\ vret.at > ExpiresAt(s)
       /\ IssuedAt(o) > ExpiresAt(s)

\* C9: update_session_file is atomic across processes: at most one process is
\* between reading the sessions file and writing it back, and no update that
\* was written is lost.
C9_AtomicUpdate ==
  /\ [](Cardinality({p \in Procs : usf[p].pc = "read"}) <= 1)
  /\ [][\A s \in DOMAIN file :
          /\ (file[s].connected_at = Stamp => file'[s].connected_at = Stamp)
          /\ (file[s].disconnected_at = Stamp => file'[s].disconnected_at = Stamp)]_vars

\* ----------------------------------------------------------------------
\* bridge claims
ConnectedNotes(c) == {i \in DOMAIN notes : notes[i] = Note("connected", localSid[c], c)}
DisconnectedNotes(sid) ==
  {i \in DOMAIN notes : notes[i].kind = "disconnected" /\ notes[i].sid = sid}
NotesOf(c) == {i \in DOMAIN notes : notes[i].conn = c}
Registered(c) == \E s \in SessionIds : connections[s] = c
NeverAuthenticated(c) == pc[c] \in {"closing", "closed"} /\ localSid[c] = NoSession
Untouched(c) ==
  /\ connections' = connections /\ notes' = notes /\ frames' = frames
  /\ localSid'[c] = NoSession /\ pc'[c] = "closing" /\ cmd' = cmd

C2_AckIsFirstFrame ==
  \A c \in Conns :
    /\ frames[c] # <<>> => frames[c][1].type = "connect_ack"
    /\ Cardinality(ConnectedNotes(c)) <= 1
    /\ pc[c] \in {"notified", "auth"} =>
         (Cardinality(ConnectedNotes(c)) = 1 /\ localSid[c] # NoSession)
    /\ pc[c] = "auth" =>
         \E i \in DOMAIN frames[c] : frames[c][i] = AckFrame(localSid[c])

\* C3: for every connection that was authenticated, whatever ended it, once
\* handle_connection has returned the registry holds no entry for that
\* connection and 'disconnected' has been notified for its session_id.
C3_CleanupAfterClose ==
  \A c \in Conns : (pc[c] = "closed" /\ localSid[c] # NoSession) =>
    /\ ~Registered(c)
    /\ \E i \in ConnectedNotes(c) : \E j \in DisconnectedNotes(localSid[c]) : i < j

C3_Witness ==
  \E c, d \in Conns :
    /\ c # d /\ pc[c] = "closed" /\ pc[d] = "closed"
    /\ localSid[c] # NoSession /\ localSid[d] = localSid[c]
    /\ closeCode[c] = CloseInternal
    /\ Cardinality(DisconnectedNotes(localSid[c])) = 1

\* C4: send_command returns only a 'response' message whose message_id is the
\* correlation id of that command; the ids of commands outstanding at the same
\* time are pairwise distinct; a response whose id matches no pending entry
\* completes nothing and leaves the pending table as it was.
Outstanding(k) == cmd[k].pc \in {"waiting", "cancelling"}
C5_TimeoutPurges ==
  /\ [](\A k \in Cmds : cmd[k].pc = "timeout" => cmd[k].mid \notin pending)
  /\ [][\A k \in Cmds : (TimeoutFire(k) \/ TimeoutRaise(k)) =>
          (pc' = pc /\ connections' = connections /\ closeCode' = closeCode
           /\ frames' = frames)]_vars
  /\ [][\A j \in Cmds, s \in 1..2 :
          (/\ SendCommand(j, s)
           /\ \E k \in Cmds : cmd[k].pc = "timeout" /\ cmd[k].sid = s
           /\ connections[s] # NoConn /\ pc[connections[s]] = "auth")
            => (cmd'[j].pc = "waiting" /\ cmd'[j].mid \in pending'
                /\ cmd'[j].mid \notin {cmd[k].mid : k \in Cmds})]_vars

C5_Witness ==
  \E k, j \in Cmds :
    /\ cmd[k].pc = "timeout" /\ cmd[j].pc = "returned"
    /\ cmd[j].sid = cmd[k].sid /\ cmd[j].mid > cmd[k].mid
    /\ connections[cmd[k].sid] # NoConn /\ pc[connections[cmd[k].sid]] = "auth"


\* ----------------------------------------------------------------------
\* generator claims
HatThenSay(p) ==
  /\ Len(p.scripts) = 1
  /\ Len(p.scripts[1].blocks) = 2
  /\ p.scripts[1].blocks[1].is_hat_block
  /\ p.scripts[1].blocks[1].opcode \in EventOpcodes
  /\ p.scripts[1].blocks[1].next = p.scripts[1].blocks[2].block_id
  /\ p.scripts[1].blocks[2].opcode = "doSay"
  /\ p.scripts[1].blocks[2].next = NoNextId

\* C10: for every intent, request text and backend behaviour, generate_snap_json
\* returns a program and never raises: either a program without an error
\* marker, or an error program with a non-empty error field and one script
\* made of a hat block followed by a say block.
C10_AlwaysRenderable ==
  gret.called =>
    /\ ~gret.raised
    /\ gret.program.shape
    /\ gret.program.error # "" => HatThenSay(gret.program)


\* ----------------------------------------------------------------------
\* generative engine claims
AttemptFails(o) == o.kind # "json" \/ ~ValidateSnapJson(o.program)
FirstGood(outs) ==
  {i \in 1..MaxRetries :
     ~AttemptFails(outs[i]) /\ \A j \in 1..(i - 1) : AttemptFails(outs[j])}

\* C11: if every attempt of one invocation of the generative engine fails (no
\* JSON object, unparsable JSON, Validator rejection or backend exception),
\* the engine returns a program with a non-null error field and exactly one
\* script of exactly two blocks: a hat block whose next is the say block,
\* whose next is null.
C11_ExhaustedRetriesFallback ==
  (eret.called /\ \A i \in 1..MaxRetries : AttemptFails(eret.outs[i])) =>
    /\ eret.program.error # ""
    /\ HatThenSay(eret.program)
    /\ ~eret.program.scripts[1].blocks[2].is_hat_block

C11_Witness ==
  /\ eret.called /\ eret.calls = MaxRetries
  /\ eret.outs[1].kind = "no_json"
  /\ eret.outs[2].kind = "json" /\ FailingGate(eret.outs[2].program) = 6
  /\ eret.program.error = "All validation retries failed"

\* C12: one invocation of the generative engine makes at most max_retries
\* backend calls; it returns the output of the first attempt that parses
\* and passes the Validator and makes no backend call after it; a non-error
\* program it returns has passed the Validator.
C12_FirstValidAttemptWins ==
  eret.called =>
    /\ eret.calls <= MaxRetries
    /\ \A i \in FirstGood(eret.outs) : eret.before < DailyApiLimit =>
         (eret.program = eret.outs[i].program /\ eret.calls = i)
    /\ eret.program.error = "" =>
         /\ ValidateSnapJson(eret.program)
         /\ \E i \in FirstGood(eret.outs) : eret.program = eret.outs[i].program

C12_Witness ==
  /\ eret.called /\ eret.calls = 2 /\ eret.program.error = ""
  /\ eret.outs[1].kind = "json" /\ FailingGate(eret.outs[1].program) = 5
  /\ eret.program = eret.outs[2].program

\* C13: once the backend call counter has reached the daily limit, every later
\* invocation of the generative engine returns the quota error program and
\* makes no backend call.
C13_QuotaFailsFast ==
  /\ [](eret.called /\ eret.before >= DailyApiLimit =>
          /\ eret.calls = 0
          /\ eret.program = CreateErrorFallback("API limit exceeded"))
  /\ [][apiCalls >= DailyApiLimit => apiCalls' = apiCalls]_vars

C13_Witness ==
  /\ eret.called /\ eret.before = DailyApiLimit /\ apiCalls = DailyApiLimit
  /\ eret.program.error = "API limit exceeded"


\* ----------------------------------------------------------------------
\* cache claims

\* C14: in every reachable state, every program held in the result cache has
\* passed the Validator, whether the pattern-matched path or the generative
\* path produced it.
C14_CacheHoldsValidated ==
  \A i \in DOMAIN cache : ValidateSnapJson(cache[i].value)


Normal(text) == Strip(StrLower(text))
Repeated == gret.called /\ gret'.called /\ Normal(gret'.text) = Normal(gret.text)
SecondIsHit ==
  gret'.path = "cache" /\ gret'.program = gret.program /\ gret'.calls = 0
  /\ apiCalls' = apiCalls

\* C15 as stated: if generate_snap_json is called twice in a row with request
\* texts that are equal after lowercasing and trimming, the second call is a
\* cache hit, returns the same program as the first call and makes no backend
\* call.
C15_RepeatIsHit == [][Repeated => SecondIsHit]_vars

\* C15 amended: if generate_snap_json is called twice in a row with request
\* texts that are equal after lowercasing and trimming and the first call
\* returned a program without an error marker, the second call is a cache
\* hit, returns the same program as the first call and makes no backend call.
C15_RepeatAfterSuccessIsHit ==
  [][(Repeated /\ gret.program.error = "") => SecondIsHit]_vars

\* a generative answer, then the same request in another case and with a
\* leading blank, answered from the cache
C15_Witness ==
  /\ gret.path = "cache" /\ gret.text = <<" ", "J", "u", "m", "p">>
  /\ metrics.cache_hits = 1 /\ metrics.generative_hits = 1
  /\ metrics.rule_based_hits = 0 /\ apiCalls > 0
  /\ Len(cache) = 1 /\ cache[1].value = gret.program


\* the keys of a reference cache, least recently used first
RECURSIVE RefOrder(_)
RefOrder(r) ==
  IF RefHeld(r) = {} THEN <<>>
  ELSE <<RefOldest(r)>> \o RefOrder(RefDrop(r, RefOldest(r)))

\* C16: the result cache is a strict LRU of fixed capacity: it never holds more
\* than _cache_max_size entries, a hit makes the entry most-recently-used,
\* storing a new key when the cache is full evicts exactly the entry least
\* recently hit or stored, and the cache's contents and recency order equal
\* those of a reference LRU driven by the same operations.
C16_StrictLru ==
  /\ [](/\ Len(cache) <= CacheMaxSize
        /\ [i \in DOMAIN cache |-> cache[i].key] = RefOrder(ref)
        /\ \A i \in DOMAIN cache : cache[i].value = ref.value[cache[i].key])
  /\ [][gret'.path = "cache" =>
          /\ cache'[Len(cache')].key = CacheKey(gret'.text)
          /\ CacheKeys(cache') = CacheKeys(cache)]_vars
  /\ [][(Len(cache) = CacheMaxSize /\ CacheKeys(cache') # CacheKeys(cache)) =>
          /\ CacheKeys(cache) \ CacheKeys(cache') = {cache[1].key}
          /\ CacheKeys(cache') \ CacheKeys(cache) = {CacheKey(gret'.text)}
          /\ \A k \in RefHeld(ref) : ref.stamp[cache[1].key] <= ref.stamp[k]]_vars

\* a full cache whose older entry was hit; the next new key has evicted the
\* other entry, which was stored later but used longer ago
C16_Witness ==
  /\ Len(cache) = CacheMaxSize /\ metrics.cache_hits >= 1
  /\ gret.called /\ gret.path # "cache" /\ cache[Len(cache)].key = CacheKey(gret.text)
  /\ Cardinality({k \in Keys : ref.value[k] # NoProgram}) = CacheMaxSize
  /\ ref.clock > CacheMaxSize + 1
  /\ ref.stamp[cache[1].key] > 1


\* ----------------------------------------------------------------------
\* claims about the programs produced for delivery
Delivered == gret.called /\ gret.program.shape /\ gret.program.error = ""
ScriptsOf(p) == {p.scripts[i] : i \in DOMAIN p.scripts}

\* C17: every script of every non-error program produced for delivery
\* (pattern-matched with or without a trigger, generative, math-pattern) has
\* as its first block a hat block whose opcode is an event-trigger opcode,
\* and no other block of the script is a hat block.
C17_HatFirstOnly ==
  Delivered =>
    \A sc \in ScriptsOf(gret.program) :
      /\ sc.blocks # <<>>
      /\ sc.blocks[1].is_hat_block
      /\ sc.blocks[1].opcode \in EventOpcodes
      /\ \A i \in DOMAIN sc.blocks : i > 1 => ~sc.blocks[i].is_hat_block

\* C18: in every script of every non-error program produced for delivery, for
\* intents with and without a trigger and patterns of any length, block_ids
\* are unique, every non-null next names a block_id of the same script, and
\* the blocks reachable from the first block via next are all the blocks.
C18_ChainWellFormed ==
  Delivered =>
    \A sc \in ScriptsOf(gret.program) :
      /\ \A i, j \in DOMAIN sc.blocks :
           sc.blocks[i].block_id = sc.blocks[j].block_id => i = j
      /\ \A i \in DOMAIN sc.blocks :
           sc.blocks[i].next # NoNextId => sc.blocks[i].next \in BlockIds(sc)
      /\ sc.blocks # <<>> => ReachFrom(sc, sc.blocks[1].block_id, {}) = BlockIds(sc)

\* C19: every block of every non-error program produced for delivery has an
\* opcode in the Knowledge Base allowlist and declares exactly the category
\* the Knowledge Base assigns to that opcode.
C19_OpcodesAndCategories ==
  Delivered =>
    \A sc \in ScriptsOf(gret.program) : \A i \in DOMAIN sc.blocks :
      /\ sc.blocks[i].opcode \in AllowedOpcodes
      /\ sc.blocks[i].category = CategoryOf(sc.blocks[i].opcode)


\* ----------------------------------------------------------------------
\* pattern matcher claim
Similarities(a) ==
  [i \in DOMAIN TriggerAliases |-> Ratio(Strip(StrLower(a)), TriggerAliases[i].trigger)]
ExactAt(a) ==
  {i \in DOMAIN TriggerAliases : TriggerAliases[i].trigger = Strip(StrLower(a))}
\* the triggers whose score is at least 0.6 and below no other score
TopOf(sim) ==
  {i \in DOMAIN sim :
     AtLeastThreshold(sim[i]) /\ \A j \in DOMAIN sim : ~Greater(sim[j], sim[i])}
First(S) == CHOOSE i \in S : \A j \in S : i <= j

\* C20: _find_matching_pattern returns the pattern of the trigger equal to the
\* lowercased, trimmed action when there is one; otherwise the pattern of the
\* trigger with the highest similarity score provided that score is >= 0.6,
\* the first-encountered trigger among equal top scores; and no pattern when
\* every score is below 0.6.
C20_ExactThenBestFuzzy ==
  mret.called =>
    \E exact \in {ExactAt(mret.action)} :
      IF exact # {}
        THEN mret.pattern = TriggerAliases[First(exact)].pattern
        ELSE \E top \in {TopOf(Similarities(mret.action))} :
               IF top # {}
                 THEN mret.pattern = TriggerAliases[First(top)].pattern
                 ELSE mret.pattern = NoPattern

\* no exact trigger and two triggers of different patterns sharing the top
\* score: the first one is taken
C20_Witness ==
  /\ mret.called /\ ExactAt(mret.action) = {}
  /\ \E top \in {TopOf(Similarities(mret.action))} : \E i, j \in top :
       /\ i < j /\ TriggerAliases[i].pattern # TriggerAliases[j].pattern
       /\ mret.pattern = TriggerAliases[i].pattern


\* C21: in a script built from a matched pattern the pattern's blocks appear
\* in template order; each of their inputs dicts has exactly the template's
\* keys, a key K holding the value of the intent parameter whose uppercased
\* name is K (the last such parameter of the dict) when there is one and the
\* template default otherwise; the Knowledge Base template is left as it was.
Givers(parameters, K) == {j \in DOMAIN parameters : StrUpper(parameters[j].key) = K}
Last(S) == CHOOSE j \in S : \A k \in S : k <= j
C21_PatternInputs ==
  (pret.called /\ ~pret.raised) =>
    LET pattern == PatternsDb[pret.name]
        template == PatternInputs[pret.name]
        base == IF pret.trigger # "" THEN 1 ELSE 0
        blocks == pret.program.scripts[1].blocks
    IN /\ Len(blocks) = base + Len(pattern)
       /\ \A i \in DOMAIN pattern :
            /\ blocks[base + i].opcode = pattern[i].opcode
            /\ blocks[base + i].category = pattern[i].category
            /\ DictKeys(pret.inputs[i]) = DictKeys(template[i])
            /\ \A K \in DictKeys(template[i]) :
                 DictGet(pret.inputs[i], K) =
                   IF Givers(pret.parameters, K) = {}
                     THEN DictGet(template[i], K)
                     ELSE pret.parameters[Last(Givers(pret.parameters, K))].value
       /\ kb = PatternInputs
\* a "say" script after a trigger block, one input overridden by a parameter
\* given in lower case, the other kept, and a parameter no input is named after
C21_Witness ==
  /\ pret.called /\ ~pret.raised
  /\ pret.name = "say" /\ pret.trigger # ""
  /\ pret.parameters = <<Item(<<"s">>, 7), Item(<<"d", "e", "g", "r", "e", "e", "s">>, 90)>>
  /\ pret.inputs = <<<<Item(SECS, 2), Item(DEGREES, 90)>>>>


\* C22: a pattern-matched request whose intent carries no trigger yields one
\* script that starts with one event hat block (the default trigger) followed
\* by the pattern's blocks, none of them a hat; for "turn right 90 degrees"
\* that is one hat block and one rotation block whose input equals 90.
C22_DefaultTriggerHat ==
  (pret.called /\ ~pret.raised /\ pret.trigger = "") =>
    LET pattern == PatternsDb[pret.name]
        scripts == pret.program.scripts
    IN /\ Len(scripts) = 1
       /\ Len(scripts[1].blocks) = 1 + Len(pattern)
       /\ scripts[1].blocks[1].is_hat_block
       /\ scripts[1].blocks[1].opcode \in EventOpcodes
       /\ \A i \in DOMAIN pattern :
            /\ scripts[1].blocks[1 + i].opcode = pattern[i].opcode
            /\ ~scripts[1].blocks[1 + i].is_hat_block
       /\ (/\ pret.name = "turn"
           /\ \E j \in DOMAIN pret.parameters :
                pret.parameters[j] = Item(<<"d", "e", "g", "r", "e", "e", "s">>, 90))
            => DictGet(pret.inputs[1], DEGREES) = 90


\* C23: a frame that is not valid JSON, as the first message of a connection
\* or in steady state, makes the server close that connection with the
\* protocol-error close code.
InvalidJson == Msg("invalid_json", "none", NoToken, 0)
C23_MalformedFrameCloses ==
  [][\A c \in Conns :
       (FirstMessage(c, InvalidJson) \/ SteadyMessage(c, InvalidJson)) =>
         (pc'[c] = "closing" /\ closeCode'[c] = CloseProtocol)]_vars


\* C24: a session token is one-time: at most one connection ever completes
\* the handshake (is sent its connect_ack) for the session a token resolves to.
Acked(c, sid) == \E i \in DOMAIN frames[c] : frames[c][i] = AckFrame(sid)
C24_TokenOneTime ==
  \A sid \in SessionIds : \A c, d \in Conns :
    (Acked(c, sid) /\ Acked(d, sid)) => c = d


\* C25: mark_session_connected and mark_session_disconnected applied twice in
\* a row leave the session's connected flag as one application does; a call
\* changes no other session's record and neither the token nor expires_at of
\* its own session; for a session_id absent from the store it returns false
\* and leaves the store unchanged.
MarkFrame ==
  kret.called =>
    IF kret.sid \in DOMAIN kret.before
      THEN /\ kret.ret
           /\ DOMAIN file = DOMAIN kret.before
           /\ \A s \in DOMAIN file : s # kret.sid => file[s] = kret.before[s]
           /\ file[kret.sid].token = kret.before[kret.sid].token
           /\ file[kret.sid].expires_at = kret.before[kret.sid].expires_at
           /\ file[kret.sid].connected = kret.updates.connected
      ELSE ~kret.ret /\ file = kret.before
MarkIdempotent ==
  [][\A sid \in 1..(MaxSessions + 1) : \A u \in {ConnectedUpdates, DisconnectedUpdates} :
       (MarkSessionCall(sid, u) /\ kret.called /\ kret.sid = sid /\ kret.updates = u)
         => (/\ kret'.ret = kret.ret
             /\ sid \in DOMAIN file => file'[sid].connected = file[sid].connected)]_vars
C25_MarkSession == []MarkFrame /\ MarkIdempotent
\* mark_session_connected applied to the second session a second time, the
\* first session being in the store
C25_Witness ==
  /\ kret.called /\ kret.ret /\ kret.sid = 2 /\ kret.updates = ConnectedUpdates
  /\ DOMAIN file = {1, 2}
  /\ kret.before[2].connected /\ kret.before[2].connected_at = Stamp
  /\ file[2].connected


\* C26: every public tool returns, on every path (absent sessions, an
\* unconnected renderer, a command timeout, internal exceptions), a record
\* with a boolean success field and, when success is false, an error text; no
\* tool lets an exception through to its caller.
C26_ToolsReturnRecords ==
  /\ tret.pc = "done" =>
       /\ tret.ret.kind = "return"
       /\ tret.ret.success \in BOOLEAN
       /\ ~tret.ret.success => tret.ret.error # NoError
  /\ lastStart # NoStart => lastStart.success \in BOOLEAN /\ lastStart.success
\* inspect_snap_project on a connected session whose renderer never answered
C26_Witness ==
  /\ tret.pc = "done"
  /\ tret.args.tool = "inspect_snap_project"
  /\ tret.ret.kind = "return" /\ ~tret.ret.success
  /\ tret.ret.error = "TimeoutError"

\* C27: in the preview and explain modes the generation tools dispatch no
\* command to the bridge: the call returns at once, the registry, the
\* pending-response table and the command counter are as before it, and
\* generate_math_blocks succeeds whatever the sessions and connections are.
IsPreviewCall(a) ==
  /\ a.tool \in {"generate_snap_blocks", "generate_math_blocks"}
  /\ a.mode \in {"preview", "explain"}
C27_PreviewDispatchesNothing ==
  /\ [](tret.pc = "await" => tret.args.mode = "execute")
  /\ [][(tret.pc # "await" /\ tret' # tret /\ IsPreviewCall(tret'.args)) =>
          /\ tret'.pc = "done"
          /\ connections' = connections
          /\ pending' = pending
          /\ stats'.total_commands = stats.total_commands
          /\ (/\ tret'.args.tool = "generate_math_blocks"
              /\ tret'.args.pattern \in DOMAIN MathPatternsDb) => tret'.ret.success]_vars
\* a math preview that succeeded with no session started and nothing connected
C27_Witness ==
  /\ tret.pc = "done"
  /\ tret.args.tool = "generate_math_blocks" /\ tret.args.mode = "preview"
  /\ tret.args.sid = NoSession
  /\ tret.ret.success
  /\ DOMAIN mem[Server] = {}
  /\ \A s \in SessionIds : connections[s] = NoConn


\* C28: each session_id in the connection registry maps to a connection that
\* authenticated for that session and has not been torn down, and every
\* authenticated connection that is still open is the one registered under its
\* session_id; the teardown of one connection never removes or replaces the
\* registration of another.
Live(c) == pc[c] \in {"registered", "notified", "auth"}
C28_RegistryMatchesConnections ==
  /\ [](\A s \in SessionIds : connections[s] # NoConn =>
          (localSid[connections[s]] = s /\ pc[connections[s]] # "closed"))
  /\ [](\A c \in Conns : Live(c) => connections[localSid[c]] = c)
  /\ [][\A c \in Conns : (pc[c] = "closing" /\ pc'[c] = "closed") =>
          \A s \in SessionIds :
            connections[s] \notin {NoConn, c} => connections'[s] = connections[s]]_vars


\* C29: once a send_command call has finished, by returning a response, by
\* raising a timeout, or by raising because the frame could not be sent on a
\* closing connection, its correlation id is not in the pending-response
\* table; so the table is empty whenever no send_command call is in progress.
Finished(k) == cmd[k].pc \in {"returned", "timeout", "send_failed"}
C29_PendingCleanedUp ==
  /\ \A k \in Cmds : Finished(k) => cmd[k].mid \notin pending
  /\ (\A k \in Cmds : ~Outstanding(k)) => pending = {}


\* C30: a session recorded by start_snap_session stays in the persisted store,
\* and validate_token resolves its display token to it, until it expires,
\* whatever start_snap_session and mark_session_* calls this or another
\* process makes afterwards.
Persisted(s) ==
  /\ s \in DOMAIN file
  /\ ValidateToken(DisplayOf(issued[s].token), file, now).session_id = s
C30_SessionStaysPersisted ==
  \A s \in DOMAIN issued : now < ExpiresAt(s) => Persisted(s)


\* C31: whenever no connection handler is in the middle of a handshake or a
\* teardown, the persisted connected flag of each session is true exactly when
\* the registry holds a connection for that session; a start_snap_session call
\* made while a session is connected does not reset that session's flag.
Quiescent == \A c \in Conns : pc[c] \in {"idle", "auth", "closed"}
C31_FlagMatchesRegistry ==
  /\ [](Quiescent =>
          \A s \in DOMAIN file : file[s].connected <=> connections[s] # NoConn)
  /\ [][nextUuid' # nextUuid =>
          \A s \in DOMAIN file :
            file[s].connected => (s \in DOMAIN file' /\ file'[s].connected)]_vars


\* C32: a pending command sent to session A is fulfilled only by a 'response'
\* received on session A's connection: a 'response' arriving on another
\* session's connection with the same message_id neither fulfils it nor
\* reaches A's caller.
ReceivedOn(result) == localSid[result.conn]
C32_ResponseFromOwnSession ==
  /\ \A k \in Cmds : cmd[k].pc = "waiting" /\ future[cmd[k].mid].state = "done" =>
       ReceivedOn(future[cmd[k].mid].result) = cmd[k].sid
  /\ \A k \in Cmds : cmd[k].pc = "returned" => ReceivedOn(cmd[k].result) = cmd[k].sid


\* C33: the send_command call of a tool and the handle_message step that
\* fulfils its pending handle run on one thread and event loop (or are
\* synchronised), so a fulfilled handle wakes its waiting caller before the
\* timeout: no call is in progress off the bridge's loop, and none resumes
\* only at its deadline.
C33_SingleWriter ==
  /\ \A k \in Cmds : Outstanding(k) => ToolsShareBridgeLoop
  /\ \A k \in Cmds : cmd[k].pc # "returned_late"


\* C34: in steady state each 'ping' received on a connection is answered with
\* exactly one 'pong' sent on that same connection, and handling it changes
\* neither the connection registry nor the pending-response table.
Ping == Msg("json", "ping", NoToken, 0)
C34_PingAnsweredOnSameConnection ==
  [][\A c \in Conns : SteadyMessage(c, Ping) =>
       /\ frames'[c] = Append(frames[c], PongFrame)
       /\ \A d \in Conns \ {c} : frames'[d] = frames[d]
       /\ connections' = connections
       /\ pending' = pending]_vars


\* C35: messages received on one connection are handled strictly in arrival
\* order: at most one message of a connection is being handled at a time, and
\* the messages handled, the one in hand and those still queued follow each
\* other in the order they arrived; between connections there is no order.
InOrder(q) == \A i, j \in DOMAIN q : i < j => q[i].n < q[j].n
SeqOf(S) == IF S = {} THEN <<>> ELSE <<CHOOSE e \in S : TRUE>>
C35_ArrivalOrder ==
  \A c \in Conns :
    /\ Cardinality(rx[c].busy) <= 1
    /\ InOrder(rx[c].done \o SeqOf(rx[c].busy) \o rx[c].queue)
    /\ \A e \in rx[c].busy : \A i \in DOMAIN rx[c].done : rx[c].done[i].n < e.n

\* a ping that arrived second on one connection is answered while the message
\* that arrived first, on the other connection, is still waiting; the first
\* connection has handled two messages one after the other
C35_Witness ==
  \E c, d \in Conns :
    /\ c # d
    /\ Len(rx[c].done) = 2 /\ rx[c].done[1].msg = Ping
    /\ rx[d].queue # <<>> /\ Head(rx[d].queue).n < rx[c].done[1].n
    /\ \E i \in DOMAIN frames[c] : frames[c][i] = PongFrame


\* C36: a connection that never sends a first message is eventually closed by
\* the server with the code of the handshake timeout, is never registered,
\* and its handle_connection task terminates.
C36_SilentConnectionClosed ==
  /\ (pc[Silent] = "awaiting") ~> (pc[Silent] = "closed" /\ closeCode[Silent] = CloseAuth)
  /\ [](localSid[Silent] = NoSession /\ ~Registered(Silent) /\ frames[Silent] = <<>>)
  /\ [](pc[Silent] = "closed" => [](pc[Silent] = "closed"))

\* the silent connection's handler has ended while another renderer, which
\* connected after it, is authenticated
C36_Witness ==
  /\ pc[Silent] = "closed" /\ closeCode[Silent] = CloseAuth
  /\ \E d \in Conns : pc[d] = "auth" /\ connections[localSid[d]] = d


\* C37: no program carrying an error marker is ever in the result cache: a
\* call that returns an error program (quota exhausted, retries exhausted or
\* an internal exception) leaves the cache as it was, with no entry under the
\* key of its request, so a later identical request is generated afresh.
C37_NoErrorProgramCached ==
  /\ [](\A i \in DOMAIN cache : cache[i].value.error = "")
  /\ [][(metrics' # metrics /\ gret'.program.error # "") =>
          /\ gret'.path # "cache"
          /\ cache' = cache
          /\ CacheKey(gret'.text) \notin CacheKeys(cache')]_vars

\* the quota error was returned for a request made twice, the second time
\* generated afresh, while the cache holds another request's program
C37_Witness ==
  /\ gret.called /\ gret.path = "generative"
  /\ gret.program.error = "API limit exceeded"
  /\ metrics.generative_hits >= 3 /\ metrics.cache_hits = 0
  /\ Len(cache) = 1 /\ cache[1].key # CacheKey(gret.text)


\* C38: the number of backend calls made by one generator instance never
\* exceeds the daily limit, for every sequence of requests and every pattern
\* of failing attempts inside the retry loop.
C38_QuotaNeverExceeded == apiCalls <= DailyApiLimit


\* C39: update_session_file always terminates: it tries to take the lock at
\* most 5 times, sleeping after each failed attempt a delay that starts at
\* 0.1 s and doubles, returns false once all attempts have failed, and every
\* attempt it ends (success, unknown session, error, failed attempt) leaves
\* no lock file behind.
Running(p) == usf[p].pc # "idle"
GaveUp(p) == usf[p].pc = "idle" /\ usf[p].attempt > 0
Starts(k) == cmd[k].pc = "idle" /\ cmd'[k].pc # "idle"
WritesCommand(c) ==
  /\ Len(frames'[c]) > Len(frames[c])
  /\ frames'[c][Len(frames'[c])].type = "command"
C40_UnregisteredSendRaises ==
  [][/\ \A k \in Cmds :
          (Starts(k) /\ connections[cmd'[k].sid] = NoConn) =>
            /\ cmd'[k].pc = "conn_error"
            /\ frames' = frames
            /\ pending' = pending /\ future' = future /\ nextMsgId' = nextMsgId
            /\ connections' = connections
            /\ stats' = stats
     /\ \A c \in Conns :
          WritesCommand(c) =>
            connections[frames'[c][Len(frames'[c])].session_id] = c]_vars

\* a command for a session whose connection had been registered and then
\* unregistered was refused: nothing pending, no command frame anywhere
C40_Witness ==
  \E k \in Cmds :
    /\ cmd[k].pc = "conn_error"
    /\ \E i \in 1..Len(notes) :
         notes[i].kind = "disconnected" /\ notes[i].sid = cmd[k].sid
    /\ pending = {}
    /\ \A c \in Conns : \A i \in 1..Len(frames[c]) : frames[c][i].type # "command"

============================================================================
